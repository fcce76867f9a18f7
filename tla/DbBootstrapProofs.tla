------------------------- MODULE DbBootstrapProofs -------------------------
(***************************************************************************)
(* Theorems about DbBootstrap: for any number of invocations, by the       *)
(* lambda and by hand, and any migrations, a completed invocation of the   *)
(* lambda leaves tmapp what it needs but for the tables of one migration,  *)
(* one that is run again leaves it everything, and no command of the       *)
(* lambda is refused because of what others have done.                     *)
(*                                                                         *)
(* They follow from Progress: what an invocation has executed holds in the *)
(* database from then on.  The lemmas on the scripts say why: nothing that *)
(* the lambda adds is ever removed, and what a command needs an earlier    *)
(* one has added.  And default privileges come before grants on existing   *)
(* tables: when the grants go by, the only tables that can lack privileges *)
(* are those of the transaction that is open, and none comes to lack them  *)
(* from then on.                                                           *)
(*                                                                         *)
(* At the end the same beside the tasks of ServiceStartup, which take no   *)
(* steps but the bootstrap's, and are not refused once it has completed.   *)
(***************************************************************************)
EXTENDS ServiceStartup, TLAPS

-----------------------------------------------------------------------------
(* The lambda's commands. *)

LEMMA LambdaScriptIs ==
    /\ DOMAIN LambdaScript = 1..16 /\ Len(LambdaScript) = 16
    /\ LambdaScript[1] = CreateSchema
    /\ LambdaScript[2] = CreateRole("migration_grp")
    /\ LambdaScript[3] = CreateRole("application_grp")
    /\ LambdaScript[4] = GrantSchema("migration_grp")
    /\ LambdaScript[5] = GrantSchema("application_grp")
    /\ LambdaScript[6] = CreateRole("tmpower")
    /\ LambdaScript[7] = CreateRole("tmapp")
    /\ LambdaScript[8] = GrantRole("migration_grp", "tmpower")
    /\ LambdaScript[9] = GrantRole("application_grp", "tmapp")
    /\ LambdaScript[10] = ActForUsers
    /\ LambdaScript[11] = OwnDefaultPrivileges
    /\ LambdaScript[12] = DefaultPrivileges("tables")
    /\ LambdaScript[13] = DefaultPrivileges("sequences")
    /\ LambdaScript[14] = GrantOnAll("tables")
    /\ LambdaScript[15] = GrantOnAll("sequences")
    /\ LambdaScript[16] = GrantConnect
BY DEF LambdaScript, RolesAndUsers

\* A command that only adds facts, and checks what it creates.
Adds(c, needs, adds) ==
    /\ c.needs = needs /\ c.adds = adds
    /\ c.removes = {} /\ c.onAll = {} /\ c.guarded = TRUE

LEMMA CommandAdds ==
    ASSUME NEW needs, NEW adds
    PROVE  Adds(Command(needs, adds), needs, adds)
BY DEF Adds, Command

LEMMA CreateRoleAdds ==
    ASSUME NEW r
    PROVE  Adds(CreateRole(r), {}, {<<"role", r>>})
<1>1. {<<"role", x>> : x \in {r}} = {<<"role", r>>}
  OBVIOUS
<1> QED
  BY <1>1, CommandAdds DEF CreateRole, CreateRoles

LEMMA GrantConnectAdds ==
    Adds(GrantConnect, {<<"role", "tmpower">>, <<"role", "tmapp">>},
         {<<"connect", "tmpower">>, <<"connect", "tmapp">>})
<1>1. /\ {<<"role", u>> : u \in Users} = {<<"role", "tmpower">>, <<"role", "tmapp">>}
      /\ {<<"connect", u>> : u \in Users} = {<<"connect", "tmpower">>, <<"connect", "tmapp">>}
  BY DEF Users
<1> QED
  BY <1>1, CommandAdds DEF GrantConnect

LEMMA ActForUsersAdds ==
    Adds(ActForUsers, {<<"role", "tmpower">>, <<"role", "tmapp">>},
         {<<"member", "postgres", "tmpower">>, <<"member", "postgres", "tmapp">>})
<1>1. /\ {<<"role", u>> : u \in Users} = {<<"role", "tmpower">>, <<"role", "tmapp">>}
      /\ {<<"member", "postgres", u>> : u \in Users}
            = {<<"member", "postgres", "tmpower">>, <<"member", "postgres", "tmapp">>}
  BY DEF Users
<1> QED
  BY <1>1, CommandAdds DEF ActForUsers

LEMMA GrantOnAllGrants ==
    ASSUME NEW kind
    PROVE  /\ GrantOnAll(kind).needs = {<<"schema">>, <<"role", "application_grp">>, <<"member", "postgres", "tmpower">>}
           /\ GrantOnAll(kind).adds = {} /\ GrantOnAll(kind).onAll = {kind}
           /\ GrantOnAll(kind).removes = {} /\ GrantOnAll(kind).guarded = TRUE
BY DEF GrantOnAll, Command

\* What each command needs and adds.
LEMMA LambdaAdds ==
    /\ Adds(LambdaScript[1], {}, {<<"schema">>})
    /\ Adds(LambdaScript[2], {}, {<<"role", "migration_grp">>})
    /\ Adds(LambdaScript[3], {}, {<<"role", "application_grp">>})
    /\ Adds(LambdaScript[4], {<<"schema">>, <<"role", "migration_grp">>}, {<<"schema to", "migration_grp">>})
    /\ Adds(LambdaScript[5], {<<"schema">>, <<"role", "application_grp">>}, {<<"schema to", "application_grp">>})
    /\ Adds(LambdaScript[6], {}, {<<"role", "tmpower">>})
    /\ Adds(LambdaScript[7], {}, {<<"role", "tmapp">>})
    /\ Adds(LambdaScript[8], {<<"role", "migration_grp">>, <<"role", "tmpower">>}, {<<"member", "tmpower", "migration_grp">>})
    /\ Adds(LambdaScript[9], {<<"role", "application_grp">>, <<"role", "tmapp">>}, {<<"member", "tmapp", "application_grp">>})
    /\ Adds(LambdaScript[10], {<<"role", "tmpower">>, <<"role", "tmapp">>},
            {<<"member", "postgres", "tmpower">>, <<"member", "postgres", "tmapp">>})
    /\ Adds(LambdaScript[11], {<<"schema">>, <<"role", "application_grp">>}, {})
    /\ Adds(LambdaScript[12], {<<"schema">>, <<"role", "application_grp">>, <<"member", "postgres", "tmpower">>}, {<<"default", "tables">>})
    /\ Adds(LambdaScript[13], {<<"schema">>, <<"role", "application_grp">>, <<"member", "postgres", "tmpower">>}, {<<"default", "sequences">>})
    /\ Adds(LambdaScript[16], {<<"role", "tmpower">>, <<"role", "tmapp">>}, {<<"connect", "tmpower">>, <<"connect", "tmapp">>})
<1>1. Adds(LambdaScript[1], {}, {<<"schema">>})
  BY LambdaScriptIs, CommandAdds DEF CreateSchema
<1>2. /\ Adds(LambdaScript[2], {}, {<<"role", "migration_grp">>})
      /\ Adds(LambdaScript[3], {}, {<<"role", "application_grp">>})
      /\ Adds(LambdaScript[6], {}, {<<"role", "tmpower">>})
      /\ Adds(LambdaScript[7], {}, {<<"role", "tmapp">>})
  BY LambdaScriptIs, CreateRoleAdds
<1>3. /\ Adds(LambdaScript[4], {<<"schema">>, <<"role", "migration_grp">>}, {<<"schema to", "migration_grp">>})
      /\ Adds(LambdaScript[5], {<<"schema">>, <<"role", "application_grp">>}, {<<"schema to", "application_grp">>})
  BY LambdaScriptIs, CommandAdds DEF GrantSchema
<1>4. /\ Adds(LambdaScript[8], {<<"role", "migration_grp">>, <<"role", "tmpower">>}, {<<"member", "tmpower", "migration_grp">>})
      /\ Adds(LambdaScript[9], {<<"role", "application_grp">>, <<"role", "tmapp">>}, {<<"member", "tmapp", "application_grp">>})
  BY LambdaScriptIs, CommandAdds DEF GrantRole
<1>5. Adds(LambdaScript[10], {<<"role", "tmpower">>, <<"role", "tmapp">>},
           {<<"member", "postgres", "tmpower">>, <<"member", "postgres", "tmapp">>})
  BY LambdaScriptIs, ActForUsersAdds
<1>6. Adds(LambdaScript[11], {<<"schema">>, <<"role", "application_grp">>}, {})
  BY LambdaScriptIs, CommandAdds DEF OwnDefaultPrivileges
<1>7. /\ Adds(LambdaScript[12], {<<"schema">>, <<"role", "application_grp">>, <<"member", "postgres", "tmpower">>}, {<<"default", "tables">>})
      /\ Adds(LambdaScript[13], {<<"schema">>, <<"role", "application_grp">>, <<"member", "postgres", "tmpower">>}, {<<"default", "sequences">>})
  BY LambdaScriptIs, CommandAdds DEF DefaultPrivileges
<1>8. Adds(LambdaScript[16], {<<"role", "tmpower">>, <<"role", "tmapp">>}, {<<"connect", "tmpower">>, <<"connect", "tmapp">>})
  BY LambdaScriptIs, GrantConnectAdds
<1> QED
  BY <1>1, <1>2, <1>3, <1>4, <1>5, <1>6, <1>7, <1>8

\* The lambda takes nothing away, and the privilege that db_setup.sql revokes
\* is none that the lambda adds.
LEMMA LambdaKeeps ==
    \A k \in 1..16 :
        /\ LambdaScript[k].removes = {} /\ LambdaScript[k].guarded = TRUE
        /\ <<"connect", "public">> \notin LambdaScript[k].adds
<1> DEFINE Good(k) ==
        /\ LambdaScript[k].removes = {} /\ LambdaScript[k].guarded = TRUE
        /\ <<"connect", "public">> \notin LambdaScript[k].adds
<1>1. Good(1) /\ Good(2) /\ Good(3)
  BY LambdaAdds DEF Adds
<1>2. Good(4) /\ Good(5) /\ Good(6)
  BY LambdaAdds DEF Adds
<1>3. Good(7) /\ Good(8) /\ Good(9)
  BY LambdaAdds DEF Adds
<1>4. Good(10) /\ Good(11) /\ Good(12)
  BY LambdaAdds DEF Adds
<1>5. Good(13) /\ Good(16)
  BY LambdaAdds DEF Adds
<1>6. Good(14) /\ Good(15)
  BY LambdaScriptIs, GrantOnAllGrants
<1> HIDE DEF Good
<1>7. \A k \in 1..16 : Good(k)
  BY <1>1, <1>2, <1>3, <1>4, <1>5, <1>6
<1> QED
  BY <1>7 DEF Good

LEMMA LambdaOnAll ==
    /\ LambdaScript[14].onAll = {"tables"} /\ LambdaScript[15].onAll = {"sequences"}
    /\ \A k \in 1..16 : k # 14 /\ k # 15 => LambdaScript[k].onAll = {}
<1> DEFINE Good(k) == LambdaScript[k].onAll = {}
<1>1. Good(1) /\ Good(2) /\ Good(3) /\ Good(4)
  BY LambdaAdds DEF Adds
<1>2. Good(5) /\ Good(6) /\ Good(7) /\ Good(8)
  BY LambdaAdds DEF Adds
<1>3. Good(9) /\ Good(10) /\ Good(11) /\ Good(12)
  BY LambdaAdds DEF Adds
<1>4. Good(13) /\ Good(16)
  BY LambdaAdds DEF Adds
<1>5. LambdaScript[14].onAll = {"tables"} /\ LambdaScript[15].onAll = {"sequences"}
  BY LambdaScriptIs, GrantOnAllGrants
<1> HIDE DEF Good
<1>6. \A k \in 1..16 : k # 14 /\ k # 15 => Good(k)
  BY <1>1, <1>2, <1>3, <1>4
<1> QED
  BY <1>5, <1>6 DEF Good

LEMMA LambdaLen == DOMAIN LambdaScript = 1..16 /\ Len(LambdaScript) = 16
BY LambdaScriptIs

LEMMA SetupLen == DOMAIN SetupScript = 1..10 /\ Len(SetupScript) = 10
BY DEF SetupScript

LEMMA SetupRemoves ==
    \A k \in 1..10 : SetupScript[k].removes \subseteq {<<"connect", "public">>}
<1> DEFINE Good(k) == SetupScript[k].removes \subseteq {<<"connect", "public">>}
<1>1. /\ SetupScript[1] = CreateSchema
      /\ SetupScript[2] = CreateRoles({"migration_grp", "application_grp"})
      /\ SetupScript[3] = GrantSchema("migration_grp")
      /\ SetupScript[4] = GrantSchema("application_grp")
      /\ SetupScript[5] = [OwnDefaultPrivileges EXCEPT !.onAll = {"tables"}]
      /\ SetupScript[6] = CreateRoles({"tmpower", "tmapp"})
      /\ SetupScript[7] = GrantRole("migration_grp", "tmpower")
      /\ SetupScript[8] = GrantRole("application_grp", "tmapp")
      /\ SetupScript[9] = RevokeConnect
      /\ SetupScript[10] = GrantConnect
  BY DEF SetupScript
<1>2. Good(1) /\ Good(2) /\ Good(3) /\ Good(4)
  <2>1. Good(1)
    BY <1>1 DEF CreateSchema, Command
  <2>2. Good(2)
    BY <1>1 DEF CreateRoles, Command
  <2>3. Good(3) /\ Good(4)
    <3>1. \A r : GrantSchema(r).removes = {}
      BY CommandAdds DEF GrantSchema, Adds
    <3> QED
      BY <1>1, <3>1
  <2> QED
    BY <2>1, <2>2, <2>3
<1>3. Good(6) /\ Good(7) /\ Good(8) /\ Good(10)
  BY <1>1 DEF CreateRoles, GrantRole, GrantConnect, Command
<1>4. Good(5)
  BY <1>1 DEF OwnDefaultPrivileges, Command
<1>5. Good(9)
  BY <1>1 DEF RevokeConnect, Command
<1> HIDE DEF Good
<1>6. \A k \in 1..10 : Good(k)
  BY <1>2, <1>3, <1>4, <1>5
<1> QED
  BY <1>6 DEF Good

-----------------------------------------------------------------------------
(* The invariant. *)

\* What the first k - 1 commands of the lambda add.
Holds(k) == \A j \in 1..16 : j < k => LambdaScript[j].adds \subseteq db

\* Tables that lack a privilege of those kinds, or any if they are new.
Lack(kinds) ==
    {t \in tables : \E k \in kinds : <<k, t>> \notin db} \cup
    {t \in CreatedTables : \E k \in Kinds : <<k, t>> \notin granted}

OfOneMigration(ts) ==
    \A t, u \in ts : \E v \in 1..Len(Migrations) : {t, u} \subseteq TablesOf(v)

\* What its grants on existing tables, the 14th and 15th, have left.
Leaves(k) ==
    /\ k > 14 => OfOneMigration(Lack({"tables"}))
    /\ k > 15 => OfOneMigration(Lacking)

Progress ==
    \A i \in Lambda :
        /\ result[i] = "none" => next[i] = 0
        /\ result[i] \in {"none", "running", "abandoned"} => Holds(next[i]) /\ Leaves(next[i])
        /\ result[i] = "completed" => Holds(17) /\ Leaves(17)

Shape ==
    /\ version \in 0..Len(Migrations)
    /\ tables = UNION {TablesOf(v) : v \in 1..version}
    /\ created \in 0..(IF version < Len(Migrations) THEN Len(Migrations[version + 1]) ELSE 0)
    /\ granted \subseteq Kinds \X CreatedTables
    /\ reachable \in BOOLEAN
    /\ DOMAIN next = Invocations
    /\ \A i \in Invocations : next[i] \in 0..Len(ScriptOf(i)) + 1
    /\ result \in [Invocations -> {"none", "running", "completed", "failed", "abandoned"}]

IInv == Shape /\ Progress

LEMMA ScriptLens ==
    \A i \in Invocations :
        /\ Len(ScriptOf(i)) \in Nat /\ DOMAIN ScriptOf(i) = 1..Len(ScriptOf(i))
        /\ i \in Lambda => ScriptOf(i) = LambdaScript
        /\ \A k \in DOMAIN ScriptOf(i) : ScriptOf(i)[k].removes \subseteq {<<"connect", "public">>}
<1> SUFFICES ASSUME NEW i \in Invocations
             PROVE  /\ Len(ScriptOf(i)) \in Nat /\ DOMAIN ScriptOf(i) = 1..Len(ScriptOf(i))
                    /\ i \in Lambda => ScriptOf(i) = LambdaScript
                    /\ \A k \in DOMAIN ScriptOf(i) :
                          ScriptOf(i)[k].removes \subseteq {<<"connect", "public">>}
  OBVIOUS
<1>1. CASE i \in Lambda
  <2>1. ScriptOf(i) = LambdaScript
    BY <1>1 DEF ScriptOf
  <2>2. \A k \in 1..16 : LambdaScript[k].removes \subseteq {<<"connect", "public">>}
    BY LambdaKeeps
  <2> QED
    BY <2>1, <2>2, LambdaLen
<1>2. CASE i \notin Lambda
  <2>1. ScriptOf(i) = SetupScript
    BY <1>2 DEF ScriptOf
  <2> QED
    BY <1>2, <2>1, SetupLen, SetupRemoves
<1> QED
  BY <1>1, <1>2

\* What a command needs, those before it establish.
LEMMA HoldsGivesNeeds ==
    ASSUME NEW k \in 1..16, Holds(k)
    PROVE  LambdaScript[k].needs \subseteq db
<1>1. CASE k \in {1, 2, 3, 6, 7}
  <2>1. /\ LambdaScript[1].needs = {} /\ LambdaScript[2].needs = {} /\ LambdaScript[3].needs = {}
        /\ LambdaScript[6].needs = {} /\ LambdaScript[7].needs = {}
    BY LambdaAdds DEF Adds
  <2> QED
    BY <1>1, <2>1
<1>2. CASE k = 4
  <2>1. LambdaScript[4].needs = {<<"schema">>, <<"role", "migration_grp">>}
    BY LambdaAdds DEF Adds
  <2>2. LambdaScript[1].adds \subseteq db /\ LambdaScript[2].adds \subseteq db
    BY <1>2 DEF Holds
  <2>3. LambdaScript[1].adds = {<<"schema">>} /\ LambdaScript[2].adds = {<<"role", "migration_grp">>}
    BY LambdaAdds DEF Adds
  <2> QED
    BY <1>2, <2>1, <2>2, <2>3
<1>3. CASE k = 5
  <2>1. LambdaScript[5].needs = {<<"schema">>, <<"role", "application_grp">>}
    BY LambdaAdds DEF Adds
  <2>2. LambdaScript[1].adds \subseteq db /\ LambdaScript[3].adds \subseteq db
    BY <1>3 DEF Holds
  <2>3. LambdaScript[1].adds = {<<"schema">>} /\ LambdaScript[3].adds = {<<"role", "application_grp">>}
    BY LambdaAdds DEF Adds
  <2> QED
    BY <1>3, <2>1, <2>2, <2>3
<1>4. CASE k = 8
  <2>1. LambdaScript[8].needs = {<<"role", "migration_grp">>, <<"role", "tmpower">>}
    BY LambdaAdds DEF Adds
  <2>2. LambdaScript[2].adds \subseteq db /\ LambdaScript[6].adds \subseteq db
    BY <1>4 DEF Holds
  <2>3. LambdaScript[2].adds = {<<"role", "migration_grp">>} /\ LambdaScript[6].adds = {<<"role", "tmpower">>}
    BY LambdaAdds DEF Adds
  <2> QED
    BY <1>4, <2>1, <2>2, <2>3
<1>5. CASE k = 9
  <2>1. LambdaScript[9].needs = {<<"role", "application_grp">>, <<"role", "tmapp">>}
    BY LambdaAdds DEF Adds
  <2>2. LambdaScript[3].adds \subseteq db /\ LambdaScript[7].adds \subseteq db
    BY <1>5 DEF Holds
  <2>3. LambdaScript[3].adds = {<<"role", "application_grp">>} /\ LambdaScript[7].adds = {<<"role", "tmapp">>}
    BY LambdaAdds DEF Adds
  <2> QED
    BY <1>5, <2>1, <2>2, <2>3
<1>6. CASE k = 10
  <2>1. LambdaScript[10].needs = {<<"role", "tmpower">>, <<"role", "tmapp">>}
    BY LambdaAdds DEF Adds
  <2>2. LambdaScript[6].adds \subseteq db /\ LambdaScript[7].adds \subseteq db
    BY <1>6 DEF Holds
  <2>3. LambdaScript[6].adds = {<<"role", "tmpower">>} /\ LambdaScript[7].adds = {<<"role", "tmapp">>}
    BY LambdaAdds DEF Adds
  <2> QED
    BY <1>6, <2>1, <2>2, <2>3
<1>7. CASE k = 11
  <2>1. LambdaScript[11].needs = {<<"schema">>, <<"role", "application_grp">>}
    BY LambdaAdds DEF Adds
  <2>2. LambdaScript[1].adds \subseteq db /\ LambdaScript[3].adds \subseteq db
    BY <1>7 DEF Holds
  <2>3. LambdaScript[1].adds = {<<"schema">>} /\ LambdaScript[3].adds = {<<"role", "application_grp">>}
    BY LambdaAdds DEF Adds
  <2> QED
    BY <1>7, <2>1, <2>2, <2>3
<1>8. CASE k = 16
  <2>1. LambdaScript[16].needs = {<<"role", "tmpower">>, <<"role", "tmapp">>}
    BY LambdaAdds DEF Adds
  <2>2. LambdaScript[6].adds \subseteq db /\ LambdaScript[7].adds \subseteq db
    BY <1>8 DEF Holds
  <2>3. LambdaScript[6].adds = {<<"role", "tmpower">>} /\ LambdaScript[7].adds = {<<"role", "tmapp">>}
    BY LambdaAdds DEF Adds
  <2> QED
    BY <1>8, <2>1, <2>2, <2>3
<1>9. CASE k = 12 \/ k = 13 \/ k = 14 \/ k = 15
  <2> DEFINE Three == {<<"schema">>, <<"role", "application_grp">>, <<"member", "postgres", "tmpower">>}
  <2>1. LambdaScript[k].needs = Three
    <3>1. LambdaScript[12].needs = Three /\ LambdaScript[13].needs = Three
      BY LambdaAdds DEF Adds
    <3>2. LambdaScript[14] = GrantOnAll("tables") /\ LambdaScript[15] = GrantOnAll("sequences")
      BY LambdaScriptIs
    <3>3. LambdaScript[14].needs = Three /\ LambdaScript[15].needs = Three
      BY <3>2, GrantOnAllGrants, ZenonT(60)
    <3> HIDE DEF Three
    <3> QED
      BY <1>9, <3>1, <3>3
  <2>2. /\ LambdaScript[1].adds \subseteq db /\ LambdaScript[3].adds \subseteq db
        /\ LambdaScript[10].adds \subseteq db
    BY <1>9 DEF Holds
  <2>3. /\ LambdaScript[1].adds = {<<"schema">>} /\ LambdaScript[3].adds = {<<"role", "application_grp">>}
        /\ LambdaScript[10].adds = {<<"member", "postgres", "tmpower">>, <<"member", "postgres", "tmapp">>}
    BY LambdaAdds DEF Adds
  <2> QED
    BY <2>1, <2>2, <2>3
<1> QED
  BY <1>1, <1>2, <1>3, <1>4, <1>5, <1>6, <1>7, <1>8, <1>9

\* No step removes anything but that privilege.
LEMMA StepRemoves ==
    ASSUME Next
    PROVE  db \ {<<"connect", "public">>} \subseteq db'
<1>1. ASSUME NEW i \in Invocations, Run(i) \/ RunAbandoned(i)
      PROVE  db \ {<<"connect", "public">>} \subseteq db'
  <2>1. next[i] \in DOMAIN ScriptOf(i) /\ Execute(ScriptOf(i)[next[i]])
    BY <1>1 DEF Run, RunAbandoned, Pending
  <2> QED
    BY <2>1, ScriptLens DEF Execute
<1>2. CASE OpenFirewall
  BY <1>2 DEF OpenFirewall
<1>3. ASSUME NEW i \in Invocations,
             \/ Invoke(i) \/ Connect(i) \/ ConnectTimesOut(i) \/ Skip(i)
             \/ Complete(i) \/ Fail(i) \/ Abandon(i)
      PROVE  db' = db
  BY <1>3 DEF Invoke, Connect, ConnectTimesOut, Skip, Complete, Fail, Abandon
<1>4. CASE Migrate \/ RollBack
  BY <1>4 DEF Migrate, CommitMigration, CreateTable, RollBack
<1> QED
  BY <1>1, <1>2, <1>3, <1>4 DEF Next, Bootstrap, Faultless, Invocations

\* What holds goes on to hold.
LEMMA HoldsStays ==
    ASSUME NEW k, db \ {<<"connect", "public">>} \subseteq db'
    PROVE  Holds(k) => Holds(k)'
<1> SUFFICES ASSUME Holds(k), NEW j \in 1..16, j < k
             PROVE  LambdaScript[j].adds \subseteq db'
  BY DEF Holds
<1>1. LambdaScript[j].adds \subseteq db
  BY DEF Holds
<1>2. <<"connect", "public">> \notin LambdaScript[j].adds
  BY LambdaKeeps
<1> QED
  BY <1>1, <1>2

\* A command that has run holds.
LEMMA HoldsRuns ==
    ASSUME NEW k \in 1..16, Holds(k), Execute(LambdaScript[k])
    PROVE  Holds(k + 1)'
<1>1. db' = (db \ LambdaScript[k].removes) \cup LambdaScript[k].adds
            \cup LambdaScript[k].onAll \X tables
  BY DEF Execute
<1>2. LambdaScript[k].removes = {}
  BY LambdaKeeps
<1>3. Holds(k)'
  BY <1>1, <1>2, HoldsStays
<1>4. LambdaScript[k].adds \subseteq db'
  BY <1>1, <1>2
<1> SUFFICES ASSUME NEW j \in 1..16, j < k + 1
             PROVE  LambdaScript[j].adds \subseteq db'
  BY DEF Holds
<1>5. CASE j = k
  BY <1>4, <1>5
<1>6. CASE j # k
  BY <1>3, <1>6 DEF Holds
<1> QED
  BY <1>5, <1>6

-----------------------------------------------------------------------------
(* What tmapp lacks. *)

LEMMA CreatedAreOpen ==
    ASSUME Shape
    PROVE  /\ CreatedTables \subseteq TablesOf(version + 1)
           /\ CreatedTables # {} => version + 1 \in 1..Len(Migrations)
<1>1. CASE version < Len(Migrations)
  <2>1. created \in 0..Len(Migrations[version + 1]) /\ version + 1 \in 1..Len(Migrations)
    BY <1>1, MigrationsAssumption DEF Shape
  <2>2. 1..created \subseteq 1..Len(Migrations[version + 1])
    BY <2>1, MigrationsAssumption
  <2> QED
    BY <2>1, <2>2 DEF CreatedTables, TablesOf
<1>2. CASE ~(version < Len(Migrations))
  <2>1. \A j \in 1..created : FALSE
    BY <1>2 DEF Shape
  <2> QED
    BY <2>1 DEF CreatedTables
<1> QED
  BY <1>1, <1>2

LEMMA OpenIsOne ==
    ASSUME Shape, NEW ts, ts \subseteq CreatedTables
    PROVE  OfOneMigration(ts)
BY CreatedAreOpen DEF OfOneMigration

LEMMA NoneCreated ==
    ASSUME created' = 0
    PROVE  CreatedTables' = {}
<1>1. \A j \in 1..created' : FALSE
  OBVIOUS
<1> QED
  BY <1>1 DEF CreatedTables

LEMMA OneMoreCreated ==
    ASSUME Shape, NEW t, CreateTable(t)
    PROVE  /\ CreatedTables' = CreatedTables \cup {t}
           /\ created' \in 0..Len(Migrations[version + 1])
           /\ version < Len(Migrations)
<1>1. /\ version < Len(Migrations) /\ created < Len(Migrations[version + 1])
      /\ t = Migrations[version + 1][created + 1] /\ created' = created + 1 /\ version' = version
  BY DEF CreateTable, MayMigrate
<1>2. created \in Nat /\ Len(Migrations[version + 1]) \in Nat
  <2>1. version + 1 \in 1..Len(Migrations)
    BY <1>1, MigrationsAssumption DEF Shape
  <2> QED
    BY <1>1, <2>1, MigrationsAssumption DEF Shape
<1>3. 1..created' = (1..created) \cup {created'}
  BY <1>1, <1>2
<1>4. CreatedTables' = CreatedTables \cup {t}
  BY <1>1, <1>3 DEF CreatedTables
<1> QED
  BY <1>1, <1>2, <1>4

\* With the default privileges there, tables come to lack nothing.
LEMMA LackShrinks ==
    ASSUME Shape, Next, {<<"default", k>> : k \in Kinds} \subseteq db,
           NEW kinds, kinds \subseteq Kinds
    PROVE  Lack(kinds)' \subseteq Lack(kinds)
<1>0. \A k \in Kinds : \A t : <<k, t>> \in db => <<k, t>> \in db'
  BY StepRemoves DEF Kinds
<1>1. CASE UNCHANGED migrationVars
  <2>1. CreatedTables' = CreatedTables /\ tables' = tables /\ granted' = granted
    BY <1>1 DEF migrationVars, CreatedTables
  <2> QED
    BY <1>0, <2>1 DEF Lack
<1>2. CASE CommitMigration
  <2>1. CreatedTables' = {}
    BY <1>2, NoneCreated DEF CommitMigration
  <2>2. tables' = tables \cup CreatedTables /\ db' = db \cup granted
    BY <1>2 DEF CommitMigration
  <2> QED
    BY <2>1, <2>2 DEF Lack
<1>3. ASSUME NEW t \in AllTables, CreateTable(t)
      PROVE  Lack(kinds)' \subseteq Lack(kinds)
  <2>1. CreatedTables' = CreatedTables \cup {t}
    BY <1>3, OneMoreCreated
  <2>2. /\ UNCHANGED <<db, tables>>
        /\ granted' = granted \cup {k \in Kinds : <<"default", k>> \in db} \X {t}
    BY <1>3 DEF CreateTable
  <2>3. \A k \in Kinds : <<k, t>> \in granted'
    BY <2>2
  <2> QED
    BY <2>1, <2>2, <2>3 DEF Lack
<1>4. CASE RollBack
  <2>1. CreatedTables' = {}
    BY <1>4, NoneCreated DEF RollBack
  <2> QED
    BY <1>4, <2>1 DEF Lack, RollBack
<1>5. CASE Bootstrap
  <2>1. UNCHANGED migrationVars
    BY <1>5 DEF Bootstrap, Faultless, OpenFirewall, Invoke, Connect, ConnectTimesOut, Run,
                Skip, Complete, Fail, Abandon, RunAbandoned
  <2> QED
    BY <1>1, <2>1
<1> QED
  BY <1>2, <1>3, <1>4, <1>5 DEF Next, Migrate

LEMMA HoldsGivesDefaults ==
    ASSUME NEW k \in Nat, Holds(k), k > 13
    PROVE  {<<"default", d>> : d \in Kinds} \subseteq db
<1>1. LambdaScript[12].adds \subseteq db /\ LambdaScript[13].adds \subseteq db
  BY DEF Holds
<1>2. LambdaScript[12].adds = {<<"default", "tables">>} /\ LambdaScript[13].adds = {<<"default", "sequences">>}
  BY LambdaAdds DEF Adds
<1> QED
  BY <1>1, <1>2 DEF Kinds

LEMMA LeavesStays ==
    ASSUME Shape, Next, NEW k \in Nat, Holds(k), Leaves(k)
    PROVE  Leaves(k)'
<1>1. CASE k > 14
  <2>1. \A kinds : kinds \subseteq Kinds => Lack(kinds)' \subseteq Lack(kinds)
    <3>1. {<<"default", d>> : d \in Kinds} \subseteq db
      BY <1>1, HoldsGivesDefaults
    <3> QED
      BY <3>1, LackShrinks
  <2>2. Lack({"tables"})' \subseteq Lack({"tables"}) /\ Lacking' \subseteq Lacking
    <3>1. {"tables"} \subseteq Kinds /\ Kinds \subseteq Kinds
      BY DEF Kinds
    <3>2. Lacking = Lack(Kinds) /\ Lacking' = Lack(Kinds)'
      BY DEF Lack, Lacking
    <3> QED
      BY <2>1, <3>1, <3>2
  <2> QED
    BY <2>2 DEF Leaves, OfOneMigration
<1>2. CASE ~(k > 14)
  BY <1>2 DEF Leaves
<1> QED
  BY <1>1, <1>2

\* The grants on existing tables pass over those of one migration only: the
\* one under way.
LEMMA LeavesRuns ==
    ASSUME Shape, Next, NEW k \in 1..16, Holds(k), Leaves(k),
           Execute(LambdaScript[k]), UNCHANGED migrationVars
    PROVE  Leaves(k + 1)'
<1>0. CreatedTables' = CreatedTables /\ tables' = tables /\ granted' = granted
  BY DEF migrationVars, CreatedTables
<1>1. Leaves(k)'
  BY LeavesStays
<1>2. CASE k < 14
  BY <1>2 DEF Leaves
<1>3. CASE k = 14
  <2>1. {"tables"} \X tables \subseteq db'
    BY <1>3, LambdaOnAll DEF Execute
  <2>2. Lack({"tables"})' \subseteq CreatedTables
    BY <1>0, <2>1 DEF Lack
  <2>3. OfOneMigration(Lack({"tables"})')
    BY <2>2, OpenIsOne
  <2> QED
    BY <1>3, <2>3 DEF Leaves, OfOneMigration
<1>4. CASE k = 15
  <2>1. {"sequences"} \X tables \subseteq db'
    BY <1>4, LambdaOnAll DEF Execute
  <2>2. Lacking' \subseteq Lack({"tables"})'
    BY <1>0, <2>1 DEF Lack, Lacking, Kinds
  <2> QED
    BY <1>1, <1>4, <2>2 DEF Leaves, OfOneMigration
<1>5. CASE k = 16
  BY <1>1, <1>5 DEF Leaves
<1> QED
  BY <1>2, <1>3, <1>4, <1>5

-----------------------------------------------------------------------------
(* Each step keeps the invariant. *)

LEMMA InitIInv == Init => IInv
<1> SUFFICES ASSUME Init PROVE IInv
  OBVIOUS
<1>1. version \in 0..Len(Migrations) /\ reachable \in BOOLEAN
  <2>1. version \in 0..Len(Migrations)
    BY MigrationsAssumption DEF Init
  <2>2. reachable \in BOOLEAN
    BY DEF Init
  <2> QED
    BY <2>1, <2>2
<1>2. tables = UNION {TablesOf(v) : v \in 1..version}
  <2>1. \A v \in 1..version : FALSE
    BY DEF Init
  <2> QED
    BY <2>1 DEF Init
<1>3. /\ created \in 0..(IF version < Len(Migrations) THEN Len(Migrations[version + 1]) ELSE 0)
      /\ granted \subseteq Kinds \X CreatedTables
  <2>1. created = 0 /\ granted = {} /\ version = 0
    BY DEF Init
  <2>2. CASE version < Len(Migrations)
    BY <2>1, <2>2, MigrationsAssumption
  <2> QED
    BY <2>1, <2>2
<1>4. DOMAIN next = Invocations /\ \A i \in Invocations : next[i] \in 0..Len(ScriptOf(i)) + 1
  BY ScriptLens DEF Init
<1>5. result \in [Invocations -> {"none", "running", "completed", "failed", "abandoned"}]
  BY DEF Init
<1>6. Progress
  <2>1. \A i \in Lambda : next[i] = 0 /\ result[i] = "none"
    BY DEF Init, Invocations
  <2>2. Holds(0) /\ Leaves(0)
    BY DEF Holds, Leaves
  <2> QED
    BY <2>1, <2>2 DEF Progress
<1> QED
  BY <1>1, <1>2, <1>3, <1>4, <1>5, <1>6 DEF IInv, Shape

LEMMA StepKeepsInvocations ==
    ASSUME Shape, Next
    PROVE  /\ reachable' \in BOOLEAN
           /\ DOMAIN next' = Invocations
           /\ \A i \in Invocations : next'[i] \in 0..Len(ScriptOf(i)) + 1
           /\ result' \in [Invocations -> {"none", "running", "completed", "failed", "abandoned"}]
<1> DEFINE Good ==
        /\ reachable' \in BOOLEAN
        /\ DOMAIN next' = Invocations
        /\ \A i \in Invocations : next'[i] \in 0..Len(ScriptOf(i)) + 1
        /\ result' \in [Invocations -> {"none", "running", "completed", "failed", "abandoned"}]
<1> USE DEF Shape
<1>1. CASE OpenFirewall
  BY <1>1 DEF OpenFirewall
<1>2. CASE \E i \in Invocations : Invoke(i)
  BY <1>2 DEF Invoke
<1>3. CASE \E i \in Invocations : Connect(i)
  BY <1>3, ScriptLens DEF Connect
<1>4. CASE \E i \in Invocations : ConnectTimesOut(i)
  BY <1>4 DEF ConnectTimesOut
<1>5. ASSUME NEW i \in Invocations, Run(i) \/ Skip(i)
      PROVE  Good
  <2>1. next' = [next EXCEPT ![i] = @ + 1] /\ next[i] \in 1..Len(ScriptOf(i))
    BY <1>5, ScriptLens DEF Run, Skip, Pending
  <2>2. UNCHANGED <<reachable, result>>
    BY <1>5 DEF Run, Skip
  <2> QED
    BY <2>1, <2>2, ScriptLens
<1>6. ASSUME NEW i \in Invocations, Complete(i) \/ Fail(i) \/ RunAbandoned(i)
      PROVE  Good
  <2>1. next' = [next EXCEPT ![i] = 0] /\ UNCHANGED reachable
    BY <1>6 DEF Complete, Fail, RunAbandoned
  <2>2. \E r \in {"completed", "failed"} : result' = [result EXCEPT ![i] = r]
    BY <1>6 DEF Complete, Fail, RunAbandoned
  <2>3. \A j \in Invocations : next'[j] \in 0..Len(ScriptOf(j)) + 1
    BY <2>1, ScriptLens
  <2> QED
    BY <2>1, <2>2, <2>3
<1>7. CASE \E i \in Invocations : Abandon(i)
  BY <1>7 DEF Abandon
<1>8. CASE Migrate \/ RollBack
  BY <1>8 DEF Migrate, CommitMigration, CreateTable, RollBack
<1> QED
  BY <1>1, <1>2, <1>3, <1>4, <1>5, <1>6, <1>7, <1>8
     DEF Next, Bootstrap, Faultless, Invocations

LEMMA StepKeepsMigrations ==
    ASSUME Shape, Next
    PROVE  /\ version' \in 0..Len(Migrations)
           /\ tables' = UNION {TablesOf(v) : v \in 1..version'}
           /\ created' \in 0..(IF version' < Len(Migrations) THEN Len(Migrations[version' + 1]) ELSE 0)
           /\ granted' \subseteq Kinds \X CreatedTables'
<1>1. CASE UNCHANGED migrationVars
  BY <1>1 DEF Shape, migrationVars, CreatedTables
<1>2. CASE CommitMigration
  <2>1. /\ version' = version + 1 /\ version < Len(Migrations) /\ created = Len(Migrations[version + 1])
        /\ tables' = tables \cup CreatedTables /\ created' = 0 /\ granted' = {}
    BY <1>2 DEF CommitMigration, MayMigrate
  <2>2. version' \in 1..Len(Migrations)
    BY <2>1, MigrationsAssumption DEF Shape
  <2>3. tables' = UNION {TablesOf(v) : v \in 1..version'}
    <3>1. CreatedTables = TablesOf(version')
      BY <2>1 DEF CreatedTables, TablesOf
    <3>2. 1..version' = (1..version) \cup {version'}
      BY <2>1, <2>2 DEF Shape
    <3>3. tables = UNION {TablesOf(v) : v \in 1..version}
      BY DEF Shape
    <3> QED
      BY <2>1, <3>1, <3>2, <3>3
  <2>4. created' \in 0..(IF version' < Len(Migrations) THEN Len(Migrations[version' + 1]) ELSE 0)
    <3>1. CASE version' < Len(Migrations)
      <4>1. version' + 1 \in 1..Len(Migrations)
        <5>1. Len(Migrations) \in Nat
          BY MigrationsAssumption
        <5>2. \A n \in Nat : \A m \in 1..n : m < n => m + 1 \in 1..n
          OBVIOUS
        <5> QED
          BY <2>2, <3>1, <5>1, <5>2
      <4> QED
        BY <2>1, <3>1, <4>1, MigrationsAssumption
    <3> QED
      BY <2>1, <3>1
  <2> QED
    BY <2>1, <2>2, <2>3, <2>4
<1>3. ASSUME NEW t \in AllTables, CreateTable(t)
      PROVE  /\ version' = version /\ tables' = tables
             /\ created' \in 0..(IF version' < Len(Migrations) THEN Len(Migrations[version' + 1]) ELSE 0)
             /\ granted' \subseteq Kinds \X CreatedTables'
  <2>1. version' = version /\ tables' = tables
    BY <1>3 DEF CreateTable
  <2>2. /\ CreatedTables' = CreatedTables \cup {t} /\ version < Len(Migrations)
        /\ created' \in 0..Len(Migrations[version + 1])
    BY <1>3, OneMoreCreated
  <2>3. granted' = granted \cup {k \in Kinds : <<"default", k>> \in db} \X {t}
    BY <1>3 DEF CreateTable
  <2>4. granted' \subseteq Kinds \X CreatedTables'
    BY <2>2, <2>3 DEF Shape
  <2> QED
    BY <2>1, <2>2, <2>4
<1>4. CASE RollBack
  <2>1. created' = 0 /\ granted' = {} /\ version' = version /\ tables' = tables
    BY <1>4 DEF RollBack
  <2>2. created' \in 0..(IF version' < Len(Migrations) THEN Len(Migrations[version' + 1]) ELSE 0)
    <3>1. CASE version' < Len(Migrations)
      <4>1. version' + 1 \in 1..Len(Migrations)
        BY <2>1, <3>1, MigrationsAssumption DEF Shape
      <4> QED
        BY <2>1, <3>1, <4>1, MigrationsAssumption
    <3> QED
      BY <2>1, <3>1
  <2> QED
    BY <2>1, <2>2 DEF Shape
<1>5. CASE Bootstrap
  <2>1. UNCHANGED migrationVars
    BY <1>5 DEF Bootstrap, Faultless, OpenFirewall, Invoke, Connect, ConnectTimesOut, Run,
                Skip, Complete, Fail, Abandon, RunAbandoned
  <2> QED
    BY <1>1, <2>1
<1>6. CASE \E t \in AllTables : CreateTable(t)
  <2>1. PICK t \in AllTables : CreateTable(t)
    BY <1>6
  <2> QED
    BY <1>3, <2>1 DEF Shape
<1> QED
  BY <1>2, <1>4, <1>5, <1>6 DEF Next, Migrate

LEMMA StepKeepsProgress ==
    ASSUME IInv, Next
    PROVE  Progress'
<1> DEFINE J(k) == Holds(k) /\ Leaves(k)
<1> SUFFICES ASSUME NEW l \in Lambda
             PROVE  /\ result'[l] = "none" => next'[l] = 0
                    /\ result'[l] \in {"none", "running", "abandoned"} => J(next[l])'
                    /\ result'[l] = "completed" => J(17)'
  BY DEF Progress
<1> l \in Invocations
  BY DEF Invocations
<1>0. /\ result[l] = "none" => next[l] = 0
      /\ result[l] \in {"none", "running", "abandoned"} => J(next[l])
      /\ result[l] = "completed" => J(17)
      /\ DOMAIN next = Invocations /\ DOMAIN result = Invocations
      /\ next[l] \in Nat
      /\ ScriptOf(l) = LambdaScript
      /\ Shape
  BY ScriptLens DEF IInv, Progress, Shape
<1>1. \A k \in Nat : J(k) => J(k)'
  <2> SUFFICES ASSUME NEW k \in Nat, J(k) PROVE J(k)'
    OBVIOUS
  <2>1. Holds(k)'
    BY StepRemoves, HoldsStays
  <2>2. Leaves(k)'
    BY <1>0, LeavesStays
  <2> QED
    BY <2>1, <2>2
<1>2. J(0)' /\ J(1)'
  BY DEF Holds, Leaves
\* How l gets on.
<1> DEFINE Moves ==
        \/ next'[l] = next[l] /\ result'[l] = result[l]
        \/ next'[l] = next[l] /\ result[l] \in {"none", "running"} /\ result'[l] \in {"running", "abandoned"}
        \/ result'[l] = "failed"
        \/ next'[l] = 1 /\ result'[l] = "running"
        \/ result[l] = "running" /\ next[l] = 17 /\ result'[l] = "completed"
        \/ \E k \in 1..16 :
              /\ result[l] = "running" /\ next[l] = k /\ Execute(LambdaScript[k])
              /\ result'[l] = "running" /\ next'[l] = k + 1 /\ UNCHANGED migrationVars
<1>3. CASE Moves
  <2> HIDE DEF J
  <2>1. CASE next'[l] = next[l] /\ result'[l] = result[l]
    BY <1>0, <1>1, <2>1
  <2>2. CASE next'[l] = next[l] /\ result[l] \in {"none", "running"} /\ result'[l] \in {"running", "abandoned"}
    BY <1>0, <1>1, <2>2
  <2>3. CASE result'[l] = "failed"
    BY <2>3
  <2>4. CASE next'[l] = 1 /\ result'[l] = "running"
    BY <1>2, <2>4
  <2>5. CASE result[l] = "running" /\ next[l] = 17 /\ result'[l] = "completed"
    BY <1>0, <1>1, <2>5
  <2>6. ASSUME NEW k \in 1..16,
               result[l] = "running", next[l] = k, Execute(LambdaScript[k]),
               result'[l] = "running", next'[l] = k + 1, UNCHANGED migrationVars
        PROVE  J(next[l])'
    <3>1. Holds(k) /\ Leaves(k)
      BY <1>0, <2>6 DEF J
    <3>2. Holds(k + 1)' /\ Leaves(k + 1)'
      BY <1>0, <2>6, <3>1, HoldsRuns, LeavesRuns
    <3> QED
      BY <2>6, <3>2 DEF J
  <2> QED
    BY <1>3, <2>1, <2>2, <2>3, <2>4, <2>5, <2>6
<1> HIDE DEF J
<1>4. CASE OpenFirewall \/ Migrate \/ RollBack
  <2>1. next' = next /\ result' = result
    BY <1>4 DEF OpenFirewall, Migrate, CommitMigration, CreateTable, RollBack
  <2> QED
    BY <1>3, <2>1
<1>5. ASSUME NEW i \in Invocations, Invoke(i) \/ Connect(i) \/ ConnectTimesOut(i)
      PROVE  Moves
  BY <1>0, <1>5 DEF Invoke, Connect, ConnectTimesOut
<1>6. ASSUME NEW i \in Invocations, Complete(i)
      PROVE  Moves
  <2>1. CASE i = l
    <3>1. next[l] = Len(LambdaScript) + 1 /\ result[l] = "running" /\ result'[l] = "completed"
      BY <1>0, <1>6, <2>1 DEF Complete
    <3> QED
      BY <3>1, LambdaLen
  <2>2. CASE i # l
    BY <1>0, <1>6, <2>2 DEF Complete
  <2> QED
    BY <2>1, <2>2
<1>7. ASSUME NEW i \in Invocations, Fail(i) \/ Abandon(i)
      PROVE  Moves
  BY <1>0, <1>7 DEF Fail, Abandon
<1>8. ASSUME NEW i \in Invocations, Skip(i)
      PROVE  Moves
  <2>1. i # l
    BY <1>8, InvocationsAssumption DEF Skip
  <2> QED
    BY <1>0, <1>8, <2>1 DEF Skip
<1>9. ASSUME NEW i \in Invocations, Run(i)
      PROVE  Moves
  <2>1. /\ next[i] \in DOMAIN ScriptOf(i) /\ Execute(ScriptOf(i)[next[i]])
        /\ next' = [next EXCEPT ![i] = @ + 1] /\ result' = result /\ result[i] = "running"
        /\ UNCHANGED migrationVars
    BY <1>9 DEF Run, Pending, migrationVars
  <2>2. CASE i # l
    BY <1>0, <2>1, <2>2
  <2>3. CASE i = l
    <3>1. next[l] \in 1..16 /\ next'[l] = next[l] + 1
      BY <1>0, <2>1, <2>3, LambdaLen
    <3> QED
      BY <1>0, <2>1, <2>3, <3>1
  <2> QED
    BY <2>2, <2>3
<1>10. ASSUME NEW i \in Invocations, RunAbandoned(i)
       PROVE  Moves
  BY <1>0, <1>10 DEF RunAbandoned
<1> HIDE DEF Moves
<1> QED
  BY <1>3, <1>4, <1>5, <1>6, <1>7, <1>8, <1>9, <1>10
     DEF Next, Bootstrap, Faultless, Invocations

-----------------------------------------------------------------------------
(* The theorems. *)

LEMMA IInvHolds == Spec => []IInv
<1>1. ASSUME IInv, [Next]_vars
      PROVE  IInv'
  <2>1. CASE Next
    <3>1. Shape'
      BY <1>1, <2>1, StepKeepsInvocations, StepKeepsMigrations DEF IInv, Shape
    <3> QED
      BY <1>1, <2>1, <3>1, StepKeepsProgress DEF IInv
  <2>2. CASE UNCHANGED vars
    <3>1. /\ UNCHANGED <<db, tables, version, created, granted, reachable, next, result>>
          /\ CreatedTables' = CreatedTables
      BY <2>2 DEF vars, migrationVars, CreatedTables
    <3>2. Shape'
      BY <1>1, <3>1 DEF IInv, Shape
    <3>3. \A k : Holds(k)' <=> Holds(k)
      BY <3>1 DEF Holds
    <3>4. Lack({"tables"})' = Lack({"tables"}) /\ Lacking' = Lacking
      BY <3>1 DEF Lack, Lacking
    <3>5. \A k : Leaves(k)' <=> Leaves(k)
      BY <3>4 DEF Leaves, OfOneMigration
    <3>6. Progress'
      BY <1>1, <3>1, <3>3, <3>5 DEF IInv, Progress
    <3> QED
      BY <3>2, <3>6 DEF IInv
  <2> QED
    BY <1>1, <2>1, <2>2
<1> QED
  BY InitIInv, <1>1, PTL DEF Spec

\* Types: among others, the tables are those of the migrations applied, and no
\* invocation leaves its script.
THEOREM TypeCorrect == Spec => []TypeOK
<1>1. IInv => TypeOK
  BY DEF IInv, Shape, TypeOK
<1> QED
  BY <1>1, IInvHolds, PTL

\* What a complete run adds, among others.
LEMMA HoldsAll ==
    ASSUME Holds(17)
    PROVE  /\ {<<"schema to", "migration_grp">>, <<"schema to", "application_grp">>} \subseteq db
           /\ {<<"role", "tmpower">>, <<"role", "tmapp">>} \subseteq db
           /\ {<<"connect", "tmpower">>, <<"connect", "tmapp">>} \subseteq db
           /\ <<"member", "tmpower", "migration_grp">> \in db
           /\ <<"member", "tmapp", "application_grp">> \in db
<1>1. /\ LambdaScript[4].adds \subseteq db /\ LambdaScript[5].adds \subseteq db
      /\ LambdaScript[6].adds \subseteq db /\ LambdaScript[7].adds \subseteq db
      /\ LambdaScript[8].adds \subseteq db /\ LambdaScript[9].adds \subseteq db
      /\ LambdaScript[16].adds \subseteq db
  BY DEF Holds
<1>2. /\ LambdaScript[4].adds = {<<"schema to", "migration_grp">>}
      /\ LambdaScript[5].adds = {<<"schema to", "application_grp">>}
      /\ LambdaScript[6].adds = {<<"role", "tmpower">>}
      /\ LambdaScript[7].adds = {<<"role", "tmapp">>}
  BY LambdaAdds DEF Adds
<1>3. /\ LambdaScript[8].adds = {<<"member", "tmpower", "migration_grp">>}
      /\ LambdaScript[9].adds = {<<"member", "tmapp", "application_grp">>}
      /\ LambdaScript[16].adds = {<<"connect", "tmpower">>, <<"connect", "tmapp">>}
  BY LambdaAdds DEF Adds
<1> QED
  BY <1>1, <1>2, <1>3

LEMMA HoldsEnters == ASSUME Holds(17) PROVE AppEnters
BY HoldsAll DEF AppEnters, CanConnect

\* Once an invocation of the lambda has completed, tmapp can log in, and works
\* with all tables but those of at most one migration.
THEOREM MissesOneMigrationHolds == Spec => []MissesOneMigration
<1>1. ASSUME IInv
      PROVE  MissesOneMigration
  <2> SUFFICES ASSUME Holds(17), Leaves(17)
               PROVE  AppEnters /\ OfOneMigration(Lacking)
    BY <1>1 DEF IInv, Progress, MissesOneMigration, Completed, OfOneMigration
  <2>1. OfOneMigration(Lacking)
    BY DEF Leaves
  <2> QED
    BY <2>1, HoldsEnters
<1> QED
  BY <1>1, IInvHolds, PTL

\* And no further table comes to lack privileges, whatever migrates, is rolled
\* back or runs beside it.
THEOREM NothingNewLacksHolds == Spec => NothingNewLacks
<1>1. ASSUME IInv, [Next]_vars
      PROVE  [Completed # {} => Lacking' \subseteq Lacking]_vars
  <2> SUFFICES ASSUME Next, Completed # {}
               PROVE  Lacking' \subseteq Lacking
    BY <1>1
  <2>1. Holds(17)
    BY <1>1 DEF IInv, Progress, Completed
  <2>2. {<<"default", k>> : k \in Kinds} \subseteq db
    BY <2>1, HoldsGivesDefaults
  <2>3. Lack(Kinds)' \subseteq Lack(Kinds)
    BY <1>1, <2>2, LackShrinks DEF IInv
  <2> QED
    BY <2>3 DEF Lack, Lacking
<1> QED
  BY <1>1, IInvHolds, PTL DEF Spec, NothingNewLacks

\* Where no table is at risk, none will be, and those that are there keep the
\* privileges they have: each that a migration adds has all of them.
LEMMA NoneAtRiskStays ==
    ASSUME Shape, NoneAtRisk, [Next]_vars
    PROVE  /\ NoneAtRisk'
           /\ \A k \in Kinds : {k} \X tables \subseteq db => {k} \X tables' \subseteq db'
<1>1. CASE UNCHANGED vars
  BY <1>1 DEF vars, migrationVars, NoneAtRisk, CreatedTables
<1>2. ASSUME Next
      PROVE  \A k \in Kinds : \A t :
                /\ <<k, t>> \in db => <<k, t>> \in db'
                /\ <<"default", t>> \in db => <<"default", t>> \in db'
  BY <1>2, StepRemoves DEF Kinds
<1>3. CASE Next /\ UNCHANGED migrationVars
  <2>1. UNCHANGED <<tables, version, granted>> /\ CreatedTables' = CreatedTables
    BY <1>3 DEF migrationVars, CreatedTables
  <2>2. \A k \in Kinds : <<"default", k>> \in db => <<"default", k>> \in db'
    BY <1>2, <1>3 DEF Kinds
  <2>3. NoneAtRisk'
    <3>1. Kinds \X CreatedTables' \subseteq granted'
      BY <2>1 DEF NoneAtRisk
    <3>2. version' = Len(Migrations) \/ {<<"default", k>> : k \in Kinds} \subseteq db'
      BY <2>1, <2>2 DEF NoneAtRisk
    <3> QED
      BY <3>1, <3>2 DEF NoneAtRisk
  <2>4. ASSUME NEW k \in Kinds, {k} \X tables \subseteq db
        PROVE  {k} \X tables' \subseteq db'
    <3>1. \A t \in tables : <<k, t>> \in db
      BY <2>4
    <3>2. \A t \in tables : <<k, t>> \in db'
      BY <1>2, <1>3, <3>1
    <3> QED
      BY <2>1, <3>2
  <2> QED
    BY <2>3, <2>4
<1>4. CASE CommitMigration
  <2>1. CreatedTables' = {} /\ created' = 0 /\ granted' = {}
    BY <1>4, NoneCreated DEF CommitMigration
  <2>2. /\ version < Len(Migrations)
        /\ tables' = tables \cup CreatedTables /\ db' = db \cup granted
    BY <1>4 DEF CommitMigration, MayMigrate
  <2>3. {<<"default", k>> : k \in Kinds} \subseteq db
    BY <2>2, MigrationsAssumption DEF NoneAtRisk, Shape
  <2>4. \A k \in Kinds : {k} \X CreatedTables \subseteq granted
    BY DEF NoneAtRisk
  <2>5. NoneAtRisk'
    BY <2>1, <2>2, <2>3 DEF NoneAtRisk
  <2> QED
    BY <2>2, <2>4, <2>5
<1>5. ASSUME NEW t \in AllTables, CreateTable(t)
      PROVE  NoneAtRisk' /\ UNCHANGED <<tables, db>>
  <2>1. CreatedTables' = CreatedTables \cup {t} /\ version < Len(Migrations)
    BY <1>5, OneMoreCreated
  <2>2. /\ UNCHANGED <<db, tables, version>>
        /\ granted' = granted \cup {k \in Kinds : <<"default", k>> \in db} \X {t}
    BY <1>5 DEF CreateTable
  <2>3. {<<"default", k>> : k \in Kinds} \subseteq db
    BY <2>1, MigrationsAssumption DEF NoneAtRisk, Shape
  <2>4. Kinds \X CreatedTables' \subseteq granted'
    BY <2>1, <2>2, <2>3 DEF NoneAtRisk
  <2> QED
    BY <2>2, <2>3, <2>4 DEF NoneAtRisk
<1>6. CASE RollBack
  <2>1. CreatedTables' = {} /\ UNCHANGED <<db, tables, version>>
    BY <1>6, NoneCreated DEF RollBack
  <2> QED
    BY <2>1 DEF NoneAtRisk
<1>7. CASE Bootstrap
  <2>1. UNCHANGED migrationVars
    BY <1>7 DEF Bootstrap, Faultless, OpenFirewall, Invoke, Connect, ConnectTimesOut, Run,
                Skip, Complete, Fail, Abandon, RunAbandoned
  <2> QED
    BY <1>3, <1>7, <2>1 DEF Next
<1>8. CASE \E t \in AllTables : CreateTable(t)
  <2>1. PICK t \in AllTables : CreateTable(t)
    BY <1>8
  <2> QED
    BY <1>5, <2>1
<1> QED
  BY <1>1, <1>4, <1>6, <1>7, <1>8 DEF Next, Migrate

\* What invocation i has repaired.
Repairs(i) ==
    /\ next[i] > 14 \/ result[i] = "completed" => {"tables"} \X tables \subseteq db
    /\ next[i] > 15 \/ result[i] = "completed" => {"sequences"} \X tables \subseteq db

LEMMA StepRepairs ==
    ASSUME NEW i \in Lambda, IInv, NoneAtRisk, Repairs(i), [Next]_vars
    PROVE  Repairs(i)'
<1> i \in Invocations
  BY DEF Invocations
<1>0. /\ DOMAIN next = Invocations /\ DOMAIN result = Invocations
      /\ next[i] \in Nat /\ ScriptOf(i) = LambdaScript
  BY ScriptLens DEF IInv, Shape
<1>1. \A k \in Kinds : {k} \X tables \subseteq db => {k} \X tables' \subseteq db'
  BY NoneAtRiskStays DEF IInv
<1>2. CASE /\ next'[i] > 14 \/ result'[i] = "completed" => next[i] > 14 \/ result[i] = "completed"
           /\ next'[i] > 15 \/ result'[i] = "completed" => next[i] > 15 \/ result[i] = "completed"
  BY <1>1, <1>2 DEF Repairs, Kinds
<1>3. CASE UNCHANGED <<next, result>>
  BY <1>2, <1>3
<1>4. CASE OpenFirewall \/ Migrate \/ RollBack
  BY <1>3, <1>4 DEF OpenFirewall, Migrate, CommitMigration, CreateTable, RollBack
<1>5. ASSUME NEW j \in Invocations,
             \/ Invoke(j) \/ Connect(j) \/ ConnectTimesOut(j) \/ Fail(j) \/ Abandon(j)
             \/ RunAbandoned(j)
      PROVE  Repairs(i)'
  <2>1. /\ next'[i] \in {next[i], 0, 1}
        /\ result'[i] = "completed" => result[i] = "completed"
    BY <1>0, <1>5 DEF Invoke, Connect, ConnectTimesOut, Fail, Abandon, RunAbandoned
  <2> QED
    BY <1>0, <1>2, <2>1
<1>6. ASSUME NEW j \in Invocations, Complete(j)
      PROVE  Repairs(i)'
  <2>1. CASE j = i
    <3>0. next[i] = Len(LambdaScript) + 1
      BY <1>0, <1>6, <2>1 DEF Complete
    <3>1. next[i] = 17
      BY <3>0, LambdaLen
    <3>2. next[i] > 14 /\ next[i] > 15
      BY <3>1
    <3> QED
      BY <1>2, <3>2
  <2>2. CASE j # i
    <3>1. next'[i] = next[i] /\ result'[i] = result[i]
      BY <1>0, <1>6, <2>2 DEF Complete
    <3> QED
      BY <1>2, <3>1
  <2> QED
    BY <2>1, <2>2
<1>7. ASSUME NEW j \in Invocations, Skip(j)
      PROVE  Repairs(i)'
  <2>1. j # i
    BY <1>7, InvocationsAssumption DEF Skip
  <2>2. next'[i] = next[i] /\ result'[i] = result[i]
    BY <1>0, <1>7, <2>1 DEF Skip
  <2> QED
    BY <1>2, <2>2
<1>8. ASSUME NEW j \in Invocations, Run(j)
      PROVE  Repairs(i)'
  <2>1. /\ next[j] \in DOMAIN ScriptOf(j) /\ Execute(ScriptOf(j)[next[j]])
        /\ next' = [next EXCEPT ![j] = @ + 1] /\ UNCHANGED <<tables, result>>
    BY <1>8 DEF Run, Pending, migrationVars
  <2>2. CASE j # i
    BY <1>0, <1>2, <2>1, <2>2
  <2>3. CASE j = i
    <3>1. next[i] \in 1..16 /\ next'[i] = next[i] + 1 /\ Execute(LambdaScript[next[i]])
      BY <1>0, <2>1, <2>3, LambdaLen
    <3>2. CASE next[i] = 14
      <4>1. {"tables"} \X tables' \subseteq db'
        BY <2>1, <3>1, <3>2, LambdaOnAll DEF Execute
      <4>2. result'[i] = "completed" => {"sequences"} \X tables' \subseteq db'
        BY <1>1, <2>1 DEF Repairs, Kinds
      <4> QED
        BY <3>1, <3>2, <4>1, <4>2 DEF Repairs
    <3>3. CASE next[i] = 15
      <4>1. {"sequences"} \X tables' \subseteq db'
        BY <2>1, <3>1, <3>3, LambdaOnAll DEF Execute
      <4>2. {"tables"} \X tables' \subseteq db'
        <5>1. {"tables"} \X tables \subseteq db /\ "tables" \in Kinds
          BY <3>3 DEF Repairs, Kinds
        <5> QED
          BY <1>1, <5>1
      <4> QED
        BY <4>1, <4>2 DEF Repairs
    <3>4. CASE next[i] # 14 /\ next[i] # 15
      BY <1>0, <1>2, <2>1, <3>1, <3>4
    <3> QED
      BY <3>2, <3>3, <3>4
  <2> QED
    BY <2>2, <2>3
<1>9. CASE UNCHANGED vars
  BY <1>3, <1>9 DEF vars
<1> QED
  BY <1>4, <1>5, <1>6, <1>7, <1>8, <1>9 DEF Next, Bootstrap, Faultless, Invocations

\* An invocation of the lambda that starts when no table is at risk repairs
\* what those before it have left.
THEOREM RunAgainRepairsHolds == Spec => RunAgainRepairs
<1> SUFFICES ASSUME NEW i \in Lambda
             PROVE  Spec => [](result[i] = "none" /\ NoneAtRisk
                                  => [](result[i] = "completed" => AppReady))
  BY DEF RunAgainRepairs
<1>1. ASSUME IInv, result[i] = "none", NoneAtRisk
      PROVE  Repairs(i)
  BY <1>1 DEF IInv, Progress, Repairs
<1>2. ASSUME IInv, NoneAtRisk, Repairs(i), [Next]_vars
      PROVE  NoneAtRisk' /\ Repairs(i)'
  BY <1>2, StepRepairs, NoneAtRiskStays DEF IInv
<1>3. ASSUME IInv, Repairs(i), result[i] = "completed"
      PROVE  AppReady
  <2>1. Holds(17)
    BY <1>3 DEF IInv, Progress
  <2>2. {"tables"} \X tables \subseteq db /\ {"sequences"} \X tables \subseteq db
    BY <1>3 DEF Repairs
  <2> QED
    BY <2>1, <2>2, HoldsEnters DEF AppReady, Kinds
<1> QED
  BY <1>1, <1>2, <1>3, IInvHolds, PTL DEF Spec

\* No command of the lambda that is next, or that the server has still to
\* execute, is refused because of what is in the database.
THEOREM NoCommandRefusedHolds == Spec => []NoCommandRefused
<1>1. ASSUME IInv
      PROVE  NoCommandRefused
  <2> SUFFICES ASSUME NEW i \in Lambda, result[i] \in {"running", "abandoned"}, Pending(i)
               PROVE  ~Refused(ScriptOf(i)[next[i]])
    BY DEF NoCommandRefused
  <2>1. PICK k \in 1..16 : k = next[i] /\ ScriptOf(i)[next[i]] = LambdaScript[k]
    BY LambdaLen DEF Pending, ScriptOf
  <2>2. Holds(k)
    BY <1>1, <2>1 DEF IInv, Progress
  <2>3. LambdaScript[k].needs \subseteq db
    BY <2>2, HoldsGivesNeeds
  <2>4. LambdaScript[k].guarded = TRUE
    BY LambdaKeeps
  <2> QED
    BY <2>1, <2>3, <2>4 DEF Refused
<1> QED
  BY <1>1, IInvHolds, PTL

-----------------------------------------------------------------------------
(* The tasks that start beside the bootstrap. *)

\* A task's steps are those of Migrate and RollBack, or leave the
\* database alone: what holds beside any migrations holds beside tasks.
THEOREM StartupImplementsBootstrap == StartupSpec => Spec
<1>1. ASSUME [StartupNext]_startupVars
      PROVE  [Next]_vars
  <2>1. CASE Bootstrap /\ UNCHANGED task
    BY <2>1 DEF Next
  <2>2. CASE CommitAtStart \/ \E t \in AllTables : CreateAtStart(t)
    BY <2>2 DEF CommitAtStart, CreateAtStart, Migrate, Next
  <2>3. CASE StartTask \/ ConnectAtStart \/ ComesUp
    BY <2>3 DEF StartTask, ConnectAtStart, ComesUp
  <2>4. CASE TaskStops
    BY <2>4 DEF TaskStops, Next
  <2>5. CASE UNCHANGED startupVars
    BY <2>5 DEF startupVars
  <2> QED
    BY <1>1, <2>1, <2>2, <2>3, <2>4, <2>5 DEF StartupNext, TaskProceeds
<1> QED
  BY <1>1, PTL DEF StartupSpec, StartupInit, Spec

\* Once an invocation of the lambda has completed, no task is refused when it
\* connects and migrates, whatever other invocations and psql do: the lambda
\* grants tmpower the right to connect by name (bootstrap_lambda.py), and
\* db_setup.sql takes it from PUBLIC only.
THEOREM NotRefusedAtStartHolds == StartupSpec => []NotRefusedAtStart
<1>1. ASSUME IInv
      PROVE  NotRefusedAtStart
  <2> SUFFICES ASSUME Holds(17)
               PROVE  /\ CanConnect("tmpower")
                      /\ {<<"member", "tmpower", "migration_grp">>, <<"schema to", "migration_grp">>} \subseteq db
    BY <1>1 DEF IInv, Progress, NotRefusedAtStart, Completed
  <2> QED
    BY HoldsAll DEF CanConnect
<1> QED
  BY <1>1, StartupImplementsBootstrap, IInvHolds, PTL

\* The same of what is proved of the bootstrap alone.
COROLLARY StartupKeeps ==
    StartupSpec => [](TypeOK /\ MissesOneMigration /\ NoCommandRefused) /\ NothingNewLacks
BY StartupImplementsBootstrap, TypeCorrect, MissesOneMigrationHolds, NoCommandRefusedHolds,
   NothingNewLacksHolds, PTL
=============================================================================
