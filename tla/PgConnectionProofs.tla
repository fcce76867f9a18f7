------------------------- MODULE PgConnectionProofs -------------------------
(***************************************************************************)
(* The lambda's connection implements CommandChannel, for any number of    *)
(* commands and any servers.                                               *)
(*                                                                         *)
(* The invariant: what is on its way between client and server is at most  *)
(* one command or one ReadyForQuery, never both; and a ReadyForQuery that  *)
(* a run waits for comes after its command has committed, or after an      *)
(* error.                                                                  *)
(*                                                                         *)
(* Then, from two more invariants (Streams, Login): client and server keep *)
(* step, and they agree on SCRAM.                                          *)
(*                                                                         *)
(* Last, what is safety of the claim that a session ends: every step       *)
(* lessens what is left (CountsDown), and neither side waits for what      *)
(* nobody will send (NeverStuck, from the invariant Going).                *)
(***************************************************************************)
EXTENDS PgConnection, Integers, TLAPS

-----------------------------------------------------------------------------
(* Sequences of messages. *)

IsSeq(s) == s \in Seq({s[k] : k \in DOMAIN s})

No(s, type) == \A k \in DOMAIN s : s[k][1] # type
AtMostOne(s, type) == \A j, k \in DOMAIN s : s[j][1] = type /\ s[k][1] = type => j = k

\* Every ReadyForQuery comes after an ErrorResponse.
ErrorFirst(s) ==
    \A k \in DOMAIN s : s[k][1] = "ready" => \E j \in DOMAIN s : j < k /\ s[j][1] = "error"

LEMMA SeqIs ==
    ASSUME NEW s, IsSeq(s)
    PROVE  Len(s) \in Nat /\ DOMAIN s = 1..Len(s)
BY DEF IsSeq

LEMMA SeqOf ==
    ASSUME NEW S, NEW s \in Seq(S)
    PROVE  IsSeq(s)
<1>1. s \in [1..Len(s) -> {s[k] : k \in DOMAIN s}] /\ Len(s) \in Nat
  OBVIOUS
<1> QED
  BY <1>1 DEF IsSeq

LEMMA TailOf ==
    ASSUME NEW s, IsSeq(s), s # <<>>
    PROVE  /\ IsSeq(Tail(s)) /\ Len(s) \in Nat \ {0} /\ Len(Tail(s)) = Len(s) - 1
           /\ Head(s) = s[1]
           /\ \A k \in 1..Len(s) - 1 : Tail(s)[k] = s[k + 1]
<1> DEFINE S == {s[k] : k \in DOMAIN s}
<1>1. s \in Seq(S)
  BY DEF IsSeq
<1> HIDE DEF S
<1>2. Tail(s) \in Seq(S)
  BY <1>1
<1>3. IsSeq(Tail(s))
  BY <1>2, SeqOf
<1> QED
  BY <1>1, <1>3

LEMMA ConcatOf ==
    ASSUME NEW s, NEW t, IsSeq(s), IsSeq(t)
    PROVE  /\ IsSeq(s \o t) /\ Len(s \o t) = Len(s) + Len(t)
           /\ \A k \in 1..Len(s) : (s \o t)[k] = s[k]
           /\ \A k \in 1..Len(t) : (s \o t)[Len(s) + k] = t[k]
<1> DEFINE S == {s[k] : k \in DOMAIN s} \cup {t[k] : k \in DOMAIN t}
<1>1. s \in Seq(S) /\ t \in Seq(S)
  <2>1. s \in [1..Len(s) -> S] /\ Len(s) \in Nat
    BY SeqIs DEF IsSeq
  <2>2. t \in [1..Len(t) -> S] /\ Len(t) \in Nat
    BY SeqIs DEF IsSeq
  <2> QED
    BY <2>1, <2>2
<1> HIDE DEF S
<1>2. IsSeq(s \o t)
  <2>1. s \o t \in Seq(S)
    BY <1>1
  <2> QED
    BY <2>1, SeqOf
<1> QED
  BY <1>1, <1>2

LEMMA ConcatAssoc ==
    ASSUME NEW s, NEW t, NEW u, IsSeq(s), IsSeq(t), IsSeq(u)
    PROVE  (s \o t) \o u = s \o (t \o u)
<1> DEFINE S == {s[k] : k \in DOMAIN s} \cup {t[k] : k \in DOMAIN t} \cup {u[k] : k \in DOMAIN u}
<1>1. s \in Seq(S) /\ t \in Seq(S) /\ u \in Seq(S)
  <2>1. s \in [1..Len(s) -> S] /\ Len(s) \in Nat
    BY SeqIs DEF IsSeq
  <2>2. t \in [1..Len(t) -> S] /\ Len(t) \in Nat
    BY SeqIs DEF IsSeq
  <2>3. u \in [1..Len(u) -> S] /\ Len(u) \in Nat
    BY SeqIs DEF IsSeq
  <2> QED
    BY <2>1, <2>2, <2>3, SMTT(30)
<1> HIDE DEF S
<1> DEFINE l == (s \o t) \o u
           r == s \o (t \o u)
<1>2. l \in Seq(S) /\ r \in Seq(S) /\ Len(l) = Len(s) + Len(t) + Len(u) /\ Len(r) = Len(l)
  BY <1>1
<1>3. \A k \in 1..Len(s) + Len(t) + Len(u) : l[k] = r[k]
  BY <1>1
<1> QED
  <2> HIDE DEF l, r
  <2>1. l \in [1..Len(l) -> S] /\ r \in [1..Len(l) -> S] /\ 1..Len(l) = 1..Len(s) + Len(t) + Len(u)
    BY <1>2
  <2>2. \A k \in 1..Len(l) : l[k] = r[k]
    BY <1>3, <2>1
  <2>3. l = [k \in 1..Len(l) |-> l[k]] /\ r = [k \in 1..Len(l) |-> r[k]]
    BY <2>1
  <2>4. [k \in 1..Len(l) |-> l[k]] = [k \in 1..Len(l) |-> r[k]]
    BY <2>2
  <2>5. l = r
    BY <2>3, <2>4
  <2> QED
    BY <2>5 DEF l, r

\* What follows the first message.
LEMMA TailKeeps ==
    ASSUME NEW s, IsSeq(s), s # <<>>, NEW type
    PROVE  /\ No(s, type) => No(Tail(s), type)
           /\ AtMostOne(s, type) => AtMostOne(Tail(s), type)
           /\ AtMostOne(s, type) /\ Head(s)[1] = type => No(Tail(s), type)
           /\ ErrorFirst(s) /\ Head(s)[1] # "error" => ErrorFirst(Tail(s))
<1>1. /\ Len(s) \in Nat \ {0} /\ DOMAIN s = 1..Len(s) /\ Head(s) = s[1]
      /\ DOMAIN Tail(s) = 1..Len(s) - 1
      /\ \A k \in 1..Len(s) - 1 : Tail(s)[k] = s[k + 1]
  BY TailOf, SeqIs
<1>2. No(s, type) => No(Tail(s), type)
  BY <1>1 DEF No
<1>3. AtMostOne(s, type) => AtMostOne(Tail(s), type)
  BY <1>1 DEF AtMostOne
<1>4. AtMostOne(s, type) /\ Head(s)[1] = type => No(Tail(s), type)
  BY <1>1 DEF AtMostOne, No
<1>5. ASSUME ErrorFirst(s), Head(s)[1] # "error"
      PROVE  ErrorFirst(Tail(s))
  <2> SUFFICES ASSUME NEW k \in DOMAIN Tail(s), Tail(s)[k][1] = "ready"
               PROVE  \E j \in DOMAIN Tail(s) : j < k /\ Tail(s)[j][1] = "error"
    BY DEF ErrorFirst
  <2>1. PICK j \in DOMAIN s : j < k + 1 /\ s[j][1] = "error"
    BY <1>1, <1>5 DEF ErrorFirst
  <2>2. j - 1 \in DOMAIN Tail(s) /\ j - 1 < k /\ Tail(s)[j - 1][1] = "error"
    BY <1>1, <1>5, <2>1
  <2> QED
    BY <2>2
<1> QED
  BY <1>2, <1>3, <1>4, <1>5

LEMMA ConcatKeeps ==
    ASSUME NEW s, NEW t, IsSeq(s), IsSeq(t), NEW type
    PROVE  /\ No(s, type) /\ No(t, type) => No(s \o t, type)
           /\ AtMostOne(s, type) /\ No(t, type) => AtMostOne(s \o t, type)
           /\ No(s, type) /\ AtMostOne(t, type) => AtMostOne(s \o t, type)
           /\ ErrorFirst(s) /\ ErrorFirst(t) => ErrorFirst(s \o t)
<1> DEFINE u == s \o t
<1>1. /\ Len(s) \in Nat /\ DOMAIN s = 1..Len(s)
      /\ Len(t) \in Nat /\ DOMAIN t = 1..Len(t)
  BY SeqIs
<1>2. /\ DOMAIN u = 1..Len(s) + Len(t)
      /\ \A k \in 1..Len(s) : u[k] = s[k]
      /\ \A k \in 1..Len(t) : u[Len(s) + k] = t[k]
  BY ConcatOf, SeqIs
<1> HIDE DEF u
<1>3. \A k \in DOMAIN u :
        \/ k \in DOMAIN s /\ u[k] = s[k]
        \/ k - Len(s) \in DOMAIN t /\ u[k] = t[k - Len(s)]
  <2> SUFFICES ASSUME NEW k \in 1..Len(s) + Len(t), k \notin 1..Len(s)
               PROVE  k - Len(s) \in 1..Len(t) /\ u[k] = t[k - Len(s)]
    BY <1>1, <1>2
  <2>1. k - Len(s) \in 1..Len(t) /\ k = Len(s) + (k - Len(s))
    BY <1>1
  <2> QED
    BY <1>2, <2>1
<1>4. No(s, type) /\ No(t, type) => No(u, type)
  BY <1>3 DEF No
<1>5. AtMostOne(s, type) /\ No(t, type) => AtMostOne(u, type)
  BY <1>3 DEF AtMostOne, No
<1>6. No(s, type) /\ AtMostOne(t, type) => AtMostOne(u, type)
  <2> SUFFICES ASSUME No(s, type), AtMostOne(t, type), NEW j \in DOMAIN u, NEW k \in DOMAIN u,
                      u[j][1] = type, u[k][1] = type
               PROVE  j = k
    BY DEF AtMostOne
  <2>1. j - Len(s) \in DOMAIN t /\ t[j - Len(s)][1] = type /\ k - Len(s) \in DOMAIN t /\ t[k - Len(s)][1] = type
    BY <1>3 DEF No
  <2>2. j - Len(s) = k - Len(s)
    BY <2>1 DEF AtMostOne
  <2> QED
    BY <1>1, <1>2, <2>2
<1>7. ASSUME ErrorFirst(s), ErrorFirst(t)
      PROVE  ErrorFirst(u)
  <2> SUFFICES ASSUME NEW k \in DOMAIN u, u[k][1] = "ready"
               PROVE  \E j \in DOMAIN u : j < k /\ u[j][1] = "error"
    BY DEF ErrorFirst
  <2>1. CASE k \in DOMAIN s /\ u[k] = s[k]
    <3>1. PICK j \in DOMAIN s : j < k /\ s[j][1] = "error"
      BY <1>7, <2>1 DEF ErrorFirst
    <3>2. j \in DOMAIN u /\ u[j] = s[j]
      BY <1>1, <1>2
    <3> QED
      BY <3>1, <3>2
  <2>2. CASE k - Len(s) \in DOMAIN t /\ u[k] = t[k - Len(s)]
    <3>1. PICK j \in DOMAIN t : j < k - Len(s) /\ t[j][1] = "error"
      BY <1>7, <2>2 DEF ErrorFirst
    <3>2. Len(s) + j \in DOMAIN u /\ u[Len(s) + j] = t[j] /\ Len(s) + j < k
      BY <1>1, <1>2, <3>1
    <3> QED
      BY <3>1, <3>2
  <2> QED
    BY <1>3, <2>1, <2>2
<1> QED
  BY <1>4, <1>5, <1>6, <1>7 DEF u

LEMMA AppendTo ==
    ASSUME NEW s, IsSeq(s), NEW x
    PROVE  IsSeq(Append(s, x)) /\ Len(Append(s, x)) = Len(s) + 1
<1> DEFINE S == {s[k] : k \in DOMAIN s} \cup {x}
<1>1. s \in Seq(S)
  <2>1. s \in [1..Len(s) -> S] /\ Len(s) \in Nat
    BY SeqIs DEF IsSeq
  <2> QED
    BY <2>1
<1>2. x \in S
  OBVIOUS
<1> HIDE DEF S
<1>3. Append(s, x) \in Seq(S) /\ Len(Append(s, x)) = Len(s) + 1
  BY <1>1, <1>2
<1> QED
  BY <1>3, SeqOf

LEMMA Empty ==
    ASSUME NEW type
    PROVE  IsSeq(<<>>) /\ Len(<<>>) = 0 /\ No(<<>>, type) /\ AtMostOne(<<>>, type) /\ ErrorFirst(<<>>)
<1>1. <<>> \in Seq({}) /\ Len(<<>>) = 0 /\ DOMAIN <<>> = {}
  OBVIOUS
<1>2. IsSeq(<<>>)
  BY <1>1, SeqOf
<1>3. No(<<>>, type) /\ AtMostOne(<<>>, type) /\ ErrorFirst(<<>>)
  BY <1>1 DEF No, AtMostOne, ErrorFirst
<1> QED
  BY <1>1, <1>2, <1>3

LEMMA Single ==
    ASSUME NEW m, NEW type
    PROVE  /\ IsSeq(<<m>>) /\ AtMostOne(<<m>>, type)
           /\ m[1] # type => No(<<m>>, type)
<1>1. <<m>> \in Seq({m}) /\ DOMAIN <<m>> = {1} /\ <<m>>[1] = m
  OBVIOUS
<1>2. IsSeq(<<m>>)
  BY <1>1, SeqOf
<1>3. AtMostOne(<<m>>, type) /\ (m[1] # type => No(<<m>>, type))
  BY <1>1 DEF No, AtMostOne
<1> QED
  BY <1>2, <1>3

LEMMA Pair ==
    ASSUME NEW m, NEW n, NEW type
    PROVE  /\ IsSeq(<<m, n>>)
           /\ m[1] # type => AtMostOne(<<m, n>>, type)
           /\ m[1] # type /\ n[1] # type => No(<<m, n>>, type)
           /\ m[1] = "error" => ErrorFirst(<<m, n>>)
<1>1. <<m, n>> \in Seq({m, n})
  OBVIOUS
<1>2. DOMAIN <<m, n>> = {1, 2} /\ <<m, n>>[1] = m /\ <<m, n>>[2] = n
  OBVIOUS
<1>3. IsSeq(<<m, n>>)
  BY <1>1, SeqOf
<1> DEFINE s == <<m, n>>
<1> HIDE DEF s
<1>4. m[1] # type => AtMostOne(s, type)
  BY <1>2 DEF s, AtMostOne
<1>5. m[1] # type /\ n[1] # type => No(s, type)
  BY <1>2 DEF s, No
<1>6. m[1] = "error" => ErrorFirst(s)
  BY <1>2 DEF s, ErrorFirst
<1> QED
  BY <1>3, <1>4, <1>5, <1>6 DEF s

-----------------------------------------------------------------------------
(* The invariant. *)

BeforeReady == {"none", "negotiating", "startup", "password", "sasl_first", "sasl_final"}

Kind ==
    /\ pc \in {"new", "ssl", "login", "idle", "running", "succeeded", "failed"}
    /\ server \in BeforeReady \cup {"idle", "executing", "gone"}
    /\ IsSeq(toServer) /\ IsSeq(toClient) /\ IsSeq(executed)
    /\ current \in Nat /\ returned \in Nat

\* One command at a time.
Counts ==
    /\ pc \in {"new", "ssl", "login"} => current = 0
    /\ pc \in {"new", "ssl", "login", "idle"} => returned = current /\ Len(executed) = current
    /\ pc = "running" => current = returned + 1
    /\ Len(executed) <= current
    /\ pc = "new" => server = "none"
    /\ server \in BeforeReady => pc \in {"new", "ssl", "login", "failed"}

\* A command is on its way to the server: it is the current one, and there is
\* neither an answer to it nor one that was overlooked.
OneQuery ==
    /\ AtMostOne(toServer, "query")
    /\ \A k \in DOMAIN toServer : toServer[k][1] = "query" => toServer[k][2] = current
    /\ Len(executed) + 1 = current
    /\ pc \in {"running", "failed"}
    /\ server \notin BeforeReady
    /\ No(toClient, "ready")

Queries ==
    /\ No(toServer, "query") \/ OneQuery
    /\ server = "executing" => toServer # <<>> /\ Head(toServer)[1] = "query"

\* A ReadyForQuery is on its way to the client: if a run waits for it, its
\* command has committed or is answered by an error before.
OneReady ==
    /\ AtMostOne(toClient, "ready")
    /\ No(toServer, "query")
    /\ pc # "idle"
    /\ server \notin BeforeReady
    /\ pc = "running" /\ ~error => Len(executed) = current \/ ErrorFirst(toClient)

Readies == No(toClient, "ready") \/ OneReady

IInv == Kind /\ Counts /\ Queries /\ Readies

LEMMA InitIInv == Init => IInv
<1> SUFFICES ASSUME Init PROVE IInv
  OBVIOUS
<1>1. /\ pc = "new" /\ server = "none" /\ current = 0 /\ returned = 0
      /\ toServer = <<>> /\ toClient = <<>> /\ executed = <<>>
  BY DEF Init
<1>2. Kind
  BY <1>1, Empty DEF Kind, BeforeReady
<1>3. Counts
  BY <1>1, Empty DEF Counts
<1>4. Queries /\ Readies
  BY <1>1, Empty DEF Queries, Readies
<1> QED
  BY <1>2, <1>3, <1>4 DEF IInv

-----------------------------------------------------------------------------
(* The client's steps. *)

\* The client sends nothing, or something that is no command.
SendsNoQuery ==
    \/ toServer' = toServer
    \/ \E m : IsSeq(m) /\ No(m, "query") /\ toServer' = toServer \o m

\* The client takes no message or the first one.
Takes == toClient' = toClient \/ (toClient # <<>> /\ toClient' = Tail(toClient))

LEMMA SendNoQuery ==
    ASSUME NEW m, Send(m), IsSeq(m), No(m, "query")
    PROVE  SendsNoQuery
BY DEF Send, SendsNoQuery

LEMMA SingleSends ==
    ASSUME NEW m, Send(<<m>>), m[1] # "query"
    PROVE  SendsNoQuery
<1>1. IsSeq(<<m>>) /\ No(<<m>>, "query")
  BY Single
<1> QED
  BY <1>1, SendNoQuery

LEMMA CloseSends == Close => SendsNoQuery
<1>1. IsSeq(<<<<"terminate">>, <<"eof">>>>) /\ No(<<<<"terminate">>, <<"eof">>>>, "query")
  BY Pair
<1> QED
  BY <1>1, SendNoQuery DEF Close

\* Every step of the client but the four that concern commands.
LEMMA ClientKeeps ==
    ASSUME IInv, SendsNoQuery, Takes,
           UNCHANGED <<current, returned, executed, server>>,
           \/ /\ pc' = pc /\ pc # "idle"
              /\ pc = "running" => error' \/ (error' = error /\ (toClient' = toClient \/ Head(toClient)[1] # "error"))
           \/ pc = "ssl" /\ pc' = "login"
           \/ pc = "idle" /\ pc' = "succeeded"
           \/ pc' = "failed"
    PROVE  IInv'
<1> USE DEF IInv
<1>1. Kind'
  <2>1. IsSeq(toServer')
    BY ConcatOf DEF SendsNoQuery, Kind
  <2>2. IsSeq(toClient')
    BY TailOf DEF Takes, Kind
  <2> QED
    BY <2>1, <2>2 DEF Kind
<1>2. Counts'
  BY DEF Counts, Kind, BeforeReady
<1>3. No(toClient, "ready") => No(toClient, "ready")'
  <2>1. No(toClient, "ready") => No(toClient', "ready")
    BY TailKeeps DEF Takes, Kind
  <2> QED
    BY <2>1 DEF No
<1>4. No(toServer, "query") => No(toServer, "query")'
  <2>1. No(toServer, "query") => No(toServer', "query")
    BY ConcatKeeps DEF SendsNoQuery, Kind
  <2> QED
    BY <2>1 DEF No
<1>5. OneQuery => OneQuery'
  <2> SUFFICES ASSUME OneQuery PROVE OneQuery'
    OBVIOUS
  <2>1. AtMostOne(toServer', "query")
    BY ConcatKeeps DEF SendsNoQuery, Kind, OneQuery
  <2>2. \A k \in DOMAIN toServer' : toServer'[k][1] = "query" => toServer'[k][2] = current
    <3>1. CASE toServer' = toServer
      BY <3>1 DEF OneQuery
    <3>2. CASE \E m : IsSeq(m) /\ No(m, "query") /\ toServer' = toServer \o m
      <4>1. PICK m : IsSeq(m) /\ No(m, "query") /\ toServer' = toServer \o m
        BY <3>2
      <4> SUFFICES ASSUME NEW k \in DOMAIN toServer', toServer'[k][1] = "query"
                   PROVE  toServer'[k][2] = current
        OBVIOUS
      <4>2. IsSeq(toServer)
        BY DEF Kind
      <4>3. k \in 1..Len(toServer) + Len(m) /\ Len(toServer) \in Nat /\ Len(m) \in Nat
        BY <4>1, <4>2, ConcatOf, SeqIs
      <4>4. CASE k \in 1..Len(toServer)
        <5>1. toServer'[k] = toServer[k] /\ k \in DOMAIN toServer
          BY <4>1, <4>2, <4>4, ConcatOf, SeqIs
        <5> QED
          BY <5>1 DEF OneQuery
      <4>5. CASE k \notin 1..Len(toServer)
        <5>1. k - Len(toServer) \in 1..Len(m) /\ k = Len(toServer) + (k - Len(toServer))
          BY <4>3, <4>5
        <5>2. toServer'[k] = m[k - Len(toServer)] /\ k - Len(toServer) \in DOMAIN m
          BY <4>1, <4>2, <5>1, ConcatOf, SeqIs
        <5> QED
          BY <4>1, <5>2 DEF No
      <4> QED
        BY <4>4, <4>5
    <3> QED
      BY <3>1, <3>2 DEF SendsNoQuery
  <2>3. No(toClient, "ready")'
    BY <1>3 DEF OneQuery
  <2> QED
    BY <2>1, <2>2, <2>3 DEF OneQuery, AtMostOne, BeforeReady
<1>6. Queries'
  <2>1. server = "executing" => toServer' # <<>> /\ Head(toServer')[1] = "query"
    <3> SUFFICES ASSUME server = "executing"
                 PROVE  toServer' # <<>> /\ Head(toServer')[1] = "query"
      OBVIOUS
    <3>1. toServer # <<>> /\ Head(toServer)[1] = "query" /\ IsSeq(toServer)
      BY DEF Queries, Kind
    <3>2. CASE toServer' = toServer
      BY <3>1, <3>2
    <3>3. CASE \E m : IsSeq(m) /\ No(m, "query") /\ toServer' = toServer \o m
      <4>1. PICK m : IsSeq(m) /\ toServer' = toServer \o m
        BY <3>3
      <4>2. IsSeq(toServer') /\ Len(toServer') = Len(toServer) + Len(m) /\ Len(toServer) \in Nat \ {0}
            /\ Len(m) \in Nat /\ toServer'[1] = toServer[1] /\ Head(toServer) = toServer[1]
        BY <3>1, <4>1, ConcatOf, TailOf, SeqIs
      <4>3. toServer' # <<>>
        BY <4>2
      <4>4. Head(toServer') = toServer'[1]
        BY <4>2, <4>3, TailOf
      <4> QED
        BY <3>1, <4>2, <4>3, <4>4
    <3> QED
      BY <3>2, <3>3 DEF SendsNoQuery
  <2> QED
    BY <1>4, <1>5, <2>1 DEF Queries
<1>7. OneReady => No(toClient, "ready")' \/ OneReady'
  <2> SUFFICES ASSUME OneReady PROVE OneReady'
    OBVIOUS
  <2>1. AtMostOne(toClient', "ready")
    BY TailKeeps DEF Takes, Kind, OneReady
  <2>2. pc' = "running" /\ ~error' => Len(executed) = current \/ ErrorFirst(toClient')
    <3>1. ErrorFirst(toClient) /\ (toClient' = toClient \/ Head(toClient)[1] # "error") => ErrorFirst(toClient')
      BY TailKeeps DEF Takes, Kind
    <3> QED
      BY <3>1 DEF OneReady
  <2>3. pc' # "idle"
    OBVIOUS
  <2> QED
    BY <1>4, <2>1, <2>2, <2>3 DEF OneReady, AtMostOne, ErrorFirst, BeforeReady
<1> QED
  BY <1>1, <1>2, <1>3, <1>6, <1>7 DEF Readies

LEMMA ConnectKeeps ==
    ASSUME IInv, Connect
    PROVE  IInv'
<1>1. /\ pc = "new" /\ pc' = "ssl" /\ server' = "negotiating"
      /\ toServer' = <<<<"ssl_request">>>>
      /\ UNCHANGED <<current, returned, executed, toClient>>
  BY DEF Connect
<1>2. server = "none" /\ No(toClient, "ready")
  BY <1>1 DEF IInv, Counts, Readies, OneReady, BeforeReady
<1>3. IsSeq(toServer') /\ No(toServer', "query")
  <2>1. <<"ssl_request">>[1] # "query"
    OBVIOUS
  <2>2. IsSeq(<<<<"ssl_request">>>>) /\ No(<<<<"ssl_request">>>>, "query")
    BY <2>1, Single
  <2> QED
    BY <1>1, <2>2
<1>4. Kind'
  BY <1>1, <1>3 DEF IInv, Kind, BeforeReady
<1>5. Counts'
  BY <1>1 DEF IInv, Counts
<1>6. Queries' /\ Readies'
  BY <1>1, <1>2, <1>3 DEF Queries, Readies, No
<1> QED
  BY <1>4, <1>5, <1>6 DEF IInv

\* ReadyForQuery ends the login: nothing is left on its way.
LEMMA LoginReadyKeeps ==
    ASSUME IInv, LoginReady
    PROVE  IInv'
<1>1. /\ pc = "login" /\ pc' = "idle"
      /\ toClient # <<>> /\ Head(toClient)[1] = "ready" /\ toClient' = Tail(toClient)
      /\ UNCHANGED <<current, returned, executed, server, toServer>>
  BY DEF LoginReady, Receives, Consume, serverVars
<1>2. IsSeq(toClient) /\ ~No(toClient, "ready")
  <2>1. IsSeq(toClient)
    BY DEF IInv, Kind
  <2>2. 1 \in DOMAIN toClient /\ toClient[1][1] = "ready"
    BY <1>1, <2>1, TailOf, SeqIs
  <2> QED
    BY <2>1, <2>2 DEF No
<1>3. OneReady
  BY <1>2 DEF IInv, Readies
<1>4. No(toClient', "ready") /\ IsSeq(toClient')
  BY <1>1, <1>2, <1>3, TailKeeps, TailOf DEF OneReady
<1>5. Kind'
  BY <1>1, <1>4 DEF IInv, Kind
<1>6. Counts'
  BY <1>1, <1>3 DEF IInv, Counts, OneReady
<1>7. Queries' /\ Readies'
  BY <1>1, <1>3, <1>4 DEF IInv, Queries, Readies, OneReady, No
<1> QED
  BY <1>5, <1>6, <1>7 DEF IInv

\* A run sends its command when there is neither one nor an answer.
LEMMA RunKeeps ==
    ASSUME IInv, Run
    PROVE  IInv'
<1> DEFINE q == <<"query", current + 1>>
<1>1. /\ pc = "idle" /\ pc' = "running" /\ current' = current + 1
      /\ toServer' = toServer \/ toServer' = toServer \o <<q>>
      /\ UNCHANGED <<returned, executed, server, toClient>>
  BY DEF Run, Send, serverVars
<1>2. /\ No(toServer, "query") /\ No(toClient, "ready") /\ server \notin BeforeReady
      /\ returned = current /\ Len(executed) = current /\ current \in Nat
      /\ server # "executing" /\ IsSeq(toServer) /\ IsSeq(toClient) /\ IsSeq(executed)
  <2>1. No(toServer, "query")
    BY <1>1 DEF IInv, Queries, OneQuery
  <2>2. No(toClient, "ready")
    BY <1>1 DEF IInv, Readies, OneReady
  <2>3. server # "executing"
    <3> SUFFICES ASSUME server = "executing" PROVE FALSE
      OBVIOUS
    <3>1. toServer # <<>> /\ Head(toServer)[1] = "query" /\ IsSeq(toServer)
      BY DEF IInv, Queries, Kind
    <3>2. 1 \in DOMAIN toServer /\ toServer[1][1] = "query"
      BY <3>1, TailOf, SeqIs
    <3> QED
      BY <2>1, <3>2 DEF No
  <2> QED
    BY <1>1, <2>1, <2>2, <2>3 DEF IInv, Kind, Counts
<1>3. IsSeq(<<q>>) /\ AtMostOne(<<q>>, "query") /\ DOMAIN <<q>> = {1} /\ Len(<<q>>) = 1 /\ <<q>>[1] = q
  BY Single
<1>4. IsSeq(toServer')
  <2>1. IsSeq(toServer \o <<q>>)
    BY <1>2, <1>3, ConcatOf
  <2> HIDE DEF q
  <2> QED
    BY <1>1, <1>2, <2>1
<1>5. Kind'
  BY <1>1, <1>2, <1>4 DEF IInv, Kind
<1>6. Counts'
  BY <1>1, <1>2 DEF Counts
<1>7. No(toServer', "query") \/ OneQuery'
  <2>1. CASE toServer' = toServer
    BY <1>2, <2>1
  <2>2. CASE toServer' = toServer \o <<q>>
    <3>1. AtMostOne(toServer', "query")
      BY <1>2, <1>3, <2>2, ConcatKeeps
    <3>2. \A k \in DOMAIN toServer' : toServer'[k][1] = "query" => toServer'[k][2] = current + 1
      <4> SUFFICES ASSUME NEW k \in DOMAIN toServer', toServer'[k][1] = "query"
                   PROVE  toServer'[k][2] = current + 1
        OBVIOUS
      <4>1. k \in 1..Len(toServer) + 1 /\ Len(toServer) \in Nat
        BY <1>2, <1>3, <2>2, ConcatOf, SeqIs
      <4>2. k \notin 1..Len(toServer)
        BY <1>2, <1>3, <2>2, ConcatOf, SeqIs DEF No
      <4>3. k = Len(toServer) + 1
        BY <4>1, <4>2
      <4>4. toServer'[k] = q
        <5>1. 1 \in 1..Len(<<q>>)
          BY <1>3
        <5>2. (toServer \o <<q>>)[Len(toServer) + 1] = <<q>>[1]
          BY <1>2, <1>3, <5>1, ConcatOf
        <5> QED
          BY <1>3, <2>2, <4>3, <5>2
      <4> QED
        BY <4>4
    <3> QED
      BY <1>1, <1>2, <3>1, <3>2 DEF OneQuery, AtMostOne, No
  <2> QED
    BY <1>1, <2>1, <2>2
<1>8. Queries'
  BY <1>1, <1>2, <1>7 DEF Queries, No
<1>9. Readies'
  BY <1>1, <1>2 DEF Readies, No
<1> QED
  BY <1>5, <1>6, <1>8, <1>9 DEF IInv

\* The command of a run that returns has committed, and nothing is left on
\* its way.
LEMMA RunReadyIs ==
    ASSUME IInv, RunReady
    PROVE  /\ Len(executed) = current /\ current = returned + 1
           /\ No(toClient', "ready") /\ No(toServer, "query") /\ server \notin BeforeReady
<1>1. /\ pc = "running" /\ ~error
      /\ toClient # <<>> /\ Head(toClient)[1] = "ready" /\ toClient' = Tail(toClient)
  BY DEF RunReady, Receives, Consume
<1>2. /\ IsSeq(toClient) /\ 1 \in DOMAIN toClient /\ toClient[1][1] = "ready"
      /\ DOMAIN toClient = 1..Len(toClient) /\ Len(toClient) \in Nat
  <2>1. IsSeq(toClient)
    BY DEF IInv, Kind
  <2> QED
    BY <1>1, <2>1, TailOf, SeqIs
<1>3. OneReady
  BY <1>2 DEF IInv, Readies, No
<1>4. ~ErrorFirst(toClient)
  <2>1. ~\E j \in DOMAIN toClient : j < 1
    BY <1>2
  <2> QED
    BY <1>2, <2>1 DEF ErrorFirst
<1>5. No(toClient', "ready")
  BY <1>1, <1>2, <1>3, TailKeeps DEF OneReady
<1> QED
  BY <1>1, <1>3, <1>4, <1>5 DEF OneReady, IInv, Counts

LEMMA RunReadyKeeps ==
    ASSUME IInv, RunReady
    PROVE  IInv'
<1>1. /\ pc = "running" /\ pc' = "idle" /\ returned' = returned + 1
      /\ toClient # <<>> /\ toClient' = Tail(toClient)
      /\ UNCHANGED <<current, executed, server, toServer>>
  BY DEF RunReady, Receives, Consume, serverVars
<1>2. IsSeq(toClient')
  BY <1>1, TailOf DEF IInv, Kind
<1>3. Kind'
  BY <1>1, <1>2 DEF IInv, Kind
<1>4. Counts'
  BY <1>1, RunReadyIs DEF IInv, Counts, Kind
<1>5. Queries'
  BY <1>1, RunReadyIs DEF IInv, Queries, No
<1>6. Readies'
  BY RunReadyIs DEF Readies, No
<1> QED
  BY <1>3, <1>4, <1>5, <1>6 DEF IInv

LEMMA ClientNextKeeps ==
    ASSUME IInv, ClientNext
    PROVE  IInv'
<1> USE DEF serverVars
<1>1. CASE ConnectFails
  BY <1>1, ClientKeeps DEF ConnectFails, SendsNoQuery, Takes
<1>2. CASE Connect
  BY <1>2, ConnectKeeps
<1>3. CASE Secured \/ Unsecured
  <2>1. Send(<<<<"startup">>>>) /\ Takes /\ pc = "ssl" /\ pc' = "login"
        /\ UNCHANGED <<current, returned, executed, server>>
    BY <1>3 DEF Secured, Unsecured, StartUp, Receives, Consume, Takes
  <2>2. SendsNoQuery
    BY <2>1, SingleSends
  <2> QED
    BY <2>1, <2>2, ClientKeeps
<1>4. CASE NegotiationFails
  <2>1. Send(<<<<"eof">>>>) /\ Takes /\ pc' = "failed"
        /\ UNCHANGED <<current, returned, executed, server>>
    BY <1>4 DEF NegotiationFails, Takes
  <2>2. SendsNoQuery
    BY <2>1, SingleSends
  <2> QED
    BY <2>1, <2>2, ClientKeeps
<1>5. CASE LoginPassword \/ LoginSASL \/ LoginSASLContinue \/ LoginSASLFinal \/ LoginInfo
  <2>1. Takes /\ pc = "login" /\ pc' = pc /\ UNCHANGED <<current, returned, executed, server>>
    BY <1>5 DEF LoginPassword, LoginSASL, LoginSASLContinue, LoginSASLFinal, LoginInfo, LoginStep,
                Receives, Consume, Takes
  <2>2. SendsNoQuery
    <3>1. CASE LoginPassword
      <4>1. Send(<<<<"password">>>>) /\ <<"password">>[1] # "query"
        BY <3>1 DEF LoginPassword
      <4> QED
        BY <4>1, SingleSends
    <3>2. CASE LoginSASL
      <4> DEFINE m == Mechanism(Head(toClient)[2])
                 first == <<"client_first", m, Gs2Flag(m)>>
      <4>1. Send(<<first>>)
        BY <3>2 DEF LoginSASL
      <4>2. first[1] # "query"
        OBVIOUS
      <4> HIDE DEF first
      <4> QED
        BY <4>1, <4>2, SingleSends
    <3>3. CASE LoginSASLContinue
      <4>1. Send(<<<<"client_final">>>>) /\ <<"client_final">>[1] # "query"
        BY <3>3 DEF LoginSASLContinue
      <4> QED
        BY <4>1, SingleSends
    <3>4. CASE LoginSASLFinal \/ LoginInfo
      BY <3>4 DEF LoginSASLFinal, LoginInfo, SendsNoQuery
    <3> QED
      BY <1>5, <3>1, <3>2, <3>3, <3>4
  <2> QED
    BY <2>1, <2>2, ClientKeeps
<1>6. CASE LoginReady
  BY <1>6, LoginReadyKeeps
<1>7. CASE LoginRefused \/ RunRefused \/ ReadFails \/ FinishFails
  <2>1. Takes /\ pc' = "failed" /\ Close /\ UNCHANGED <<current, returned, executed, server>>
    BY <1>7 DEF LoginRefused, RunRefused, ReadFails, FinishFails, Raise, Receives, Consume, Takes
  <2> QED
    BY <2>1, CloseSends, ClientKeeps
<1>8. CASE Run
  BY <1>8, RunKeeps
<1>9. CASE RunComplete
  <2>1. /\ SendsNoQuery /\ Takes /\ pc = "running" /\ pc' = pc /\ error' = error
        /\ Head(toClient)[1] # "error" /\ UNCHANGED <<current, returned, executed, server>>
    BY <1>9 DEF RunComplete, clientVars, Receives, Consume, SendsNoQuery, Takes
  <2> QED
    BY <2>1, ClientKeeps
<1>10. CASE RunError
  <2>1. /\ SendsNoQuery /\ Takes /\ pc = "running" /\ pc' = pc /\ error'
        /\ UNCHANGED <<current, returned, executed, server>>
    BY <1>10 DEF RunError, Receives, Consume, SendsNoQuery, Takes
  <2> QED
    BY <2>1, ClientKeeps
<1>11. CASE RunReady
  BY <1>11, RunReadyKeeps
<1>12. CASE Finish
  <2>1. /\ Takes /\ pc = "idle" /\ pc' = "succeeded" /\ Close
        /\ UNCHANGED <<current, returned, executed, server>>
    BY <1>12 DEF Finish, Takes
  <2> QED
    BY <2>1, CloseSends, ClientKeeps
<1> QED
  BY <1>1, <1>2, <1>3, <1>4, <1>5, <1>6, <1>7, <1>8, <1>9, <1>10, <1>11, <1>12 DEF ClientNext

-----------------------------------------------------------------------------
(* The steps of the server and of the network. *)

\* The client is sent nothing, or something without a ReadyForQuery.
NoReadySent ==
    \/ toClient' = toClient
    \/ \E m : IsSeq(m) /\ No(m, "ready") /\ toClient' = toClient \o m

\* The server takes no message or the first one.
ServerTakes == toServer' = toServer \/ (toServer # <<>> /\ toServer' = Tail(toServer))

LEMMA TailCommands ==
    ASSUME NEW s, NEW c, IsSeq(s), s # <<>>,
           \A k \in DOMAIN s : s[k][1] = "query" => s[k][2] = c
    PROVE  \A k \in DOMAIN Tail(s) : Tail(s)[k][1] = "query" => Tail(s)[k][2] = c
<1>1. /\ Len(s) \in Nat \ {0} /\ DOMAIN s = 1..Len(s)
      /\ DOMAIN Tail(s) = 1..Len(s) - 1
      /\ \A k \in 1..Len(s) - 1 : Tail(s)[k] = s[k + 1]
  BY TailOf, SeqIs
<1> QED
  BY <1>1

\* The server goes on with the login, or ends.
LEMMA ServerKeeps ==
    ASSUME IInv, NoReadySent, ServerTakes,
           UNCHANGED <<pc, current, returned, executed, error>>,
           \/ server' = "gone"
           \/ server \in BeforeReady \ {"none"} /\ server' \in BeforeReady \ {"none"},
           server # "none"
    PROVE  IInv'
<1> USE DEF IInv
<1>1. IsSeq(toServer) /\ IsSeq(toClient)
  BY DEF Kind
<1>2. Kind'
  <2>1. IsSeq(toServer')
    BY <1>1, TailOf DEF ServerTakes
  <2>2. IsSeq(toClient')
    BY <1>1, ConcatOf DEF NoReadySent
  <2> QED
    BY <2>1, <2>2 DEF Kind
<1>3. Counts'
  BY DEF Counts, BeforeReady
<1>4. No(toClient, "ready") => No(toClient', "ready")
  BY <1>1, ConcatKeeps DEF NoReadySent
<1>5. No(toServer, "query") => No(toServer', "query")
  BY <1>1, TailKeeps DEF ServerTakes
<1>6. OneQuery => OneQuery'
  <2> SUFFICES ASSUME OneQuery PROVE OneQuery'
    OBVIOUS
  <2>1. AtMostOne(toServer', "query")
    BY <1>1, TailKeeps DEF ServerTakes, OneQuery
  <2>2. \A k \in DOMAIN toServer' : toServer'[k][1] = "query" => toServer'[k][2] = current
    BY <1>1, TailCommands DEF ServerTakes, OneQuery
  <2>3. No(toClient', "ready")
    BY <1>4 DEF OneQuery
  <2> QED
    BY <2>1, <2>2, <2>3 DEF OneQuery, AtMostOne, No, BeforeReady
<1>7. Queries'
  <2>1. server' # "executing"
    BY DEF BeforeReady
  <2> QED
    BY <1>5, <1>6, <2>1 DEF Queries, No
<1>8. OneReady => OneReady'
  <2> SUFFICES ASSUME OneReady PROVE OneReady'
    OBVIOUS
  <2>1. AtMostOne(toClient', "ready")
    BY <1>1, ConcatKeeps DEF NoReadySent, OneReady
  <2>2. ErrorFirst(toClient) => ErrorFirst(toClient')
    <3>1. \A m : No(m, "ready") => ErrorFirst(m)
      BY DEF No, ErrorFirst
    <3> QED
      BY <1>1, <3>1, ConcatKeeps DEF NoReadySent
  <2>3. No(toServer', "query")
    BY <1>5 DEF OneReady
  <2> QED
    BY <2>1, <2>2, <2>3 DEF OneReady, AtMostOne, ErrorFirst, No, BeforeReady
<1>9. Readies'
  BY <1>4, <1>8 DEF Readies, No
<1> QED
  BY <1>2, <1>3, <1>7, <1>9

LEMMA ReplySends ==
    ASSUME NEW state, NEW m, Reply(state, m), IsSeq(m), No(m, "ready"), toServer # <<>>
    PROVE  /\ NoReadySent /\ ServerTakes /\ server' = state
           /\ UNCHANGED <<pc, current, returned, executed, error>>
BY DEF Reply, NoReadySent, ServerTakes, clientVars

LEMMA RefuseKeeps ==
    ASSUME IInv, Refuse, toServer # <<>>, server # "none"
    PROVE  IInv'
<1> DEFINE m == <<<<"error">>, <<"eof">>>>
<1>1. IsSeq(m) /\ No(m, "ready")
  BY Pair
<1>2. Reply("gone", m)
  BY DEF Refuse
<1> HIDE DEF m
<1> QED
  BY <1>1, <1>2, ReplySends, ServerKeeps

\* A reply of one message while the client logs in.
LEMMA LoginReplyKeeps ==
    ASSUME IInv, NEW state \in BeforeReady \ {"none"}, NEW m, m[1] # "ready", Reply(state, <<m>>),
           toServer # <<>>, server \in BeforeReady \ {"none"}
    PROVE  IInv'
<1>1. IsSeq(<<m>>) /\ No(<<m>>, "ready")
  BY Single
<1>2. /\ NoReadySent /\ ServerTakes /\ server' = state
      /\ UNCHANGED <<pc, current, returned, executed, error>>
  BY <1>1, ReplySends
<1> QED
  BY <1>2, ServerKeeps DEF BeforeReady

\* ReadyForQuery after the login: there is no command yet.
LEMMA LogInKeeps ==
    ASSUME IInv, NEW m, IsSeq(m), No(m, "ready"), LogIn(m),
           toServer # <<>>, server \in BeforeReady \ {"none"}
    PROVE  IInv'
<1> DEFINE t == m \o <<<<"info">>, <<"ready">>>>
<1>1. IsSeq(t) /\ AtMostOne(t, "ready")
  <2>1. IsSeq(<<<<"info">>, <<"ready">>>>) /\ AtMostOne(<<<<"info">>, <<"ready">>>>, "ready")
    BY Pair
  <2> QED
    BY <2>1, ConcatOf, ConcatKeeps
<1>2. /\ server' = "idle" /\ toServer' = Tail(toServer)
      /\ toClient' = toClient \/ toClient' = toClient \o t
      /\ UNCHANGED <<pc, current, returned, executed, error>>
  BY DEF LogIn, Reply, clientVars
<1> HIDE DEF t
<1>3. /\ IsSeq(toServer) /\ IsSeq(toClient)
      /\ No(toServer, "query") /\ No(toClient, "ready") /\ pc \in {"ssl", "login", "failed"}
  BY DEF IInv, Kind, Counts, Queries, OneQuery, Readies, OneReady, BeforeReady
<1>4. No(toServer', "query") /\ IsSeq(toServer')
  BY <1>2, <1>3, TailKeeps, TailOf
<1>5. IsSeq(toClient') /\ AtMostOne(toClient', "ready")
  <2>1. AtMostOne(toClient, "ready")
    BY <1>3 DEF No, AtMostOne
  <2> QED
    BY <1>1, <1>2, <1>3, <2>1, ConcatOf, ConcatKeeps
<1>6. Kind'
  BY <1>2, <1>4, <1>5 DEF IInv, Kind
<1>7. Counts'
  BY <1>2, <1>3 DEF IInv, Counts, BeforeReady
<1>8. Queries'
  BY <1>2, <1>4 DEF Queries, No
<1>9. OneReady'
  BY <1>2, <1>3, <1>4, <1>5 DEF OneReady, No, AtMostOne, BeforeReady
<1> QED
  BY <1>6, <1>7, <1>8, <1>9 DEF IInv, Readies

\* What the server executes is the client's current command.
LEMMA ExecutingIs ==
    ASSUME IInv, server = "executing"
    PROVE  /\ OneQuery /\ toServer # <<>> /\ Head(toServer)[1] = "query" /\ Head(toServer)[2] = current
           /\ No(Tail(toServer), "query") /\ IsSeq(Tail(toServer))
<1>1. toServer # <<>> /\ Head(toServer)[1] = "query" /\ IsSeq(toServer)
  BY DEF IInv, Queries, Kind
<1>2. 1 \in DOMAIN toServer /\ toServer[1] = Head(toServer)
  BY <1>1, TailOf, SeqIs
<1>3. OneQuery
  BY <1>1, <1>2 DEF IInv, Queries, No
<1>4. No(Tail(toServer), "query") /\ IsSeq(Tail(toServer))
  BY <1>1, <1>3, TailKeeps, TailOf DEF OneQuery
<1> QED
  BY <1>1, <1>2, <1>3, <1>4 DEF OneQuery

LEMMA ServerQueryKeeps ==
    ASSUME IInv, ServerQuery
    PROVE  IInv'
<1>1. /\ server = "idle" /\ server' = "executing"
      /\ toServer # <<>> /\ Head(toServer)[1] = "query"
      /\ UNCHANGED <<pc, current, returned, executed, error, toServer, toClient>>
  BY DEF ServerQuery, Reads, clientVars
<1>2. OneQuery
  <2>1. 1 \in DOMAIN toServer /\ toServer[1] = Head(toServer)
    BY <1>1, TailOf, SeqIs DEF IInv, Kind
  <2> QED
    BY <1>1, <2>1 DEF IInv, Queries, No
<1>3. Kind' /\ Counts'
  BY <1>1 DEF IInv, Kind, Counts, BeforeReady
<1>4. OneQuery'
  BY <1>1, <1>2 DEF OneQuery, AtMostOne, No, BeforeReady
<1> QED
  BY <1>1, <1>3, <1>4 DEF IInv, Queries, Readies, OneQuery

\* A command that has been answered is gone, and its ReadyForQuery comes last.
LEMMA AnswerKeeps ==
    ASSUME IInv, server = "executing", server' = "idle",
           toServer' = Tail(toServer),
           NEW m, IsSeq(m), AtMostOne(m, "ready"),
           toClient' = toClient \/ toClient' = toClient \o m,
           IsSeq(executed'),
           \/ Len(executed') = current
           \/ executed' = executed /\ ErrorFirst(m),
           UNCHANGED <<pc, current, returned, error>>
    PROVE  IInv'
<1>1. /\ OneQuery /\ No(Tail(toServer), "query") /\ IsSeq(Tail(toServer))
  BY ExecutingIs
<1>2. /\ No(toClient, "ready") /\ IsSeq(toClient)
      /\ current \in Nat /\ returned \in Nat /\ IsSeq(executed)
      /\ pc \in {"running", "failed"} /\ Len(executed) + 1 = current
  BY <1>1 DEF OneQuery, IInv, Kind
<1>3. IsSeq(toClient') /\ (toClient' = toClient \/ AtMostOne(toClient', "ready"))
  BY <1>2, ConcatOf, ConcatKeeps
<1>4. ErrorFirst(m) => ErrorFirst(toClient')
  <2>1. ErrorFirst(toClient)
    BY <1>2 DEF No, ErrorFirst
  <2> QED
    BY <1>2, <2>1, ConcatKeeps
<1>5. Kind'
  BY <1>1, <1>3 DEF IInv, Kind
<1>6. Counts'
  <2>1. Len(executed') <= current
    BY <1>2, SeqIs
  <2> QED
    BY <1>2, <2>1 DEF IInv, Counts, BeforeReady
<1>7. Queries'
  BY <1>1 DEF Queries, No
<1>8. Readies'
  <2>1. CASE toClient' = toClient
    BY <1>2, <2>1 DEF Readies, No
  <2>2. CASE AtMostOne(toClient', "ready")
    <3>1. OneReady'
      BY <1>1, <1>2, <1>4, <2>2 DEF OneReady, AtMostOne, ErrorFirst, No, BeforeReady
    <3> QED
      BY <3>1 DEF Readies
  <2> QED
    BY <1>3, <2>1, <2>2
<1> QED
  BY <1>5, <1>6, <1>7, <1>8 DEF IInv

LEMMA ServerCommitsKeeps ==
    ASSUME IInv, ServerCommits
    PROVE  IInv' /\ executed' = Append(executed, current) /\ Len(executed) + 1 = current
<1> DEFINE answer == <<<<"complete", Head(toServer)[2]>>, <<"ready">>>>
<1>1. PICK notices \in {<<>>, <<<<"info">>>>} :
        toClient' = toClient \/ toClient' = (toClient \o notices) \o answer
  BY DEF ServerCommits
<1>2. /\ server = "executing" /\ server' = "idle" /\ toServer' = Tail(toServer)
      /\ executed' = Append(executed, Head(toServer)[2])
      /\ UNCHANGED <<pc, current, returned, error>>
  BY DEF ServerCommits, clientVars
<1>3. /\ executed' = Append(executed, current) /\ Len(executed) + 1 = current /\ IsSeq(executed)
      /\ IsSeq(toClient)
  BY <1>2, ExecutingIs DEF OneQuery, IInv, Kind
<1>4. IsSeq(executed') /\ Len(executed') = current
  BY <1>3, AppendTo
<1>5. IsSeq(notices) /\ No(notices, "ready")
  <2>1. <<"info">>[1] # "ready"
    OBVIOUS
  <2>2. CASE notices = <<>>
    BY <2>2, Empty
  <2>3. CASE notices = <<<<"info">>>>
    BY <2>1, <2>3, Single
  <2> QED
    BY <2>2, <2>3
<1>6. IsSeq(answer) /\ AtMostOne(answer, "ready")
  <2>1. <<"complete", Head(toServer)[2]>>[1] # "ready"
    OBVIOUS
  <2> QED
    BY <2>1, Pair
<1> HIDE DEF answer
<1>7. IsSeq(notices \o answer) /\ AtMostOne(notices \o answer, "ready")
  BY <1>5, <1>6, ConcatOf, ConcatKeeps
<1>8. toClient' = toClient \/ toClient' = toClient \o (notices \o answer)
  <2>1. (toClient \o notices) \o answer = toClient \o (notices \o answer)
    BY <1>3, <1>5, <1>6, ConcatAssoc, SMTT(30)
  <2> QED
    BY <1>1, <2>1
<1>9. IInv'
  BY <1>2, <1>4, <1>7, <1>8, AnswerKeeps
<1> QED
  BY <1>3, <1>9

LEMMA ServerRefusesCommandKeeps ==
    ASSUME IInv, ServerRefusesCommand
    PROVE  IInv'
<1> DEFINE m == <<<<"error">>, <<"ready">>>>
<1>1. /\ server = "executing" /\ server' = "idle" /\ toServer' = Tail(toServer)
      /\ toClient' = toClient \/ toClient' = toClient \o m
      /\ UNCHANGED <<pc, current, returned, error, executed>>
  BY DEF ServerRefusesCommand, Reply, clientVars
<1>2. IsSeq(m) /\ AtMostOne(m, "ready") /\ ErrorFirst(m)
  BY Pair
<1> HIDE DEF m
<1>3. IsSeq(executed')
  BY <1>1 DEF IInv, Kind
<1> QED
  BY <1>1, <1>2, <1>3, AnswerKeeps

LEMMA ServerStopsKeeps ==
    ASSUME IInv, ServerStops
    PROVE  IInv'
<1> DEFINE eof == <<<<"eof">>>>
<1>1. PICK last \in {<<>>, <<<<"error">>>>} :
        toClient' = toClient \/ toClient' = (toClient \o last) \o eof
  BY DEF ServerStops
<1>2. /\ server # "none" /\ server' = "gone" /\ ServerTakes
      /\ UNCHANGED <<pc, current, returned, executed, error>>
  BY DEF ServerStops, ServerTakes, clientVars
<1>3. IsSeq(last) /\ No(last, "ready")
  <2>1. <<"error">>[1] # "ready"
    OBVIOUS
  <2>2. CASE last = <<>>
    BY <2>2, Empty
  <2>3. CASE last = <<<<"error">>>>
    BY <2>1, <2>3, Single
  <2> QED
    BY <2>2, <2>3
<1>4. IsSeq(eof) /\ No(eof, "ready")
  <2>1. <<"eof">>[1] # "ready"
    OBVIOUS
  <2> QED
    BY <2>1, Single
<1> HIDE DEF eof
<1>5. IsSeq(last \o eof) /\ No(last \o eof, "ready")
  BY <1>3, <1>4, ConcatOf, ConcatKeeps
<1>6. NoReadySent
  <2>1. IsSeq(toClient)
    BY DEF IInv, Kind
  <2>2. (toClient \o last) \o eof = toClient \o (last \o eof)
    BY <1>3, <1>4, <2>1, ConcatAssoc
  <2>3. toClient' = toClient \/ toClient' = toClient \o (last \o eof)
    BY <1>1, <2>2
  <2> QED
    BY <1>5, <2>3 DEF NoReadySent
<1> QED
  BY <1>2, <1>6, ServerKeeps

LEMMA BreakKeeps ==
    ASSUME IInv, Break
    PROVE  IInv'
<1>1. /\ UNCHANGED <<pc, current, returned, executed, error, server>>
      /\ toClient' = <<>>
      /\ toServer' = IF server = "executing" THEN <<Head(toServer)>> ELSE <<>>
  BY DEF Break, clientVars, serverVars
<1>2. Kind'
  <2>1. IsSeq(toServer') /\ IsSeq(toClient')
    BY <1>1, Single, Empty
  <2> QED
    BY <1>1, <2>1 DEF IInv, Kind
<1>3. Counts'
  BY <1>1 DEF IInv, Counts
<1>4. Readies' /\ No(toClient', "ready")
  BY <1>1, Empty DEF Readies, No
<1>5. Queries'
  <2>1. CASE server = "executing"
    <3> DEFINE h == Head(toServer)
    <3>1. OneQuery /\ h[1] = "query" /\ h[2] = current /\ toServer' = <<h>>
      BY <1>1, <2>1, ExecutingIs
    <3> HIDE DEF h
    <3>2. DOMAIN toServer' = {1} /\ toServer'[1] = h /\ toServer' # <<>> /\ Head(toServer') = h
      BY <3>1
    <3>3. OneQuery'
      BY <1>1, <1>4, <3>1, <3>2 DEF OneQuery, AtMostOne, No, BeforeReady
    <3> QED
      BY <3>1, <3>2, <3>3 DEF Queries
  <2>2. CASE server # "executing"
    BY <1>1, <2>2, Empty DEF Queries, No
  <2> QED
    BY <2>1, <2>2
<1> QED
  BY <1>2, <1>3, <1>4, <1>5 DEF IInv

LEMMA ServerNextKeeps ==
    ASSUME IInv, ServerNext
    PROVE  IInv'
<1> USE DEF Reads
<1>1. CASE ServerSSL
  <2> DEFINE m == <<IF setup.tls THEN "S" ELSE "N">>
  <2>1. m[1] # "ready" /\ Reply("startup", <<m>>) /\ toServer # <<>> /\ server = "negotiating"
    BY <1>1 DEF ServerSSL
  <2> HIDE DEF m
  <2> QED
    BY <2>1, LoginReplyKeeps DEF BeforeReady
<1>2. CASE ServerStartup
  <2>1. toServer # <<>> /\ server = "startup"
    BY <1>2 DEF ServerStartup
  <2>2. CASE LogIn(<<>>)
    BY <2>1, <2>2, Empty, LogInKeeps DEF BeforeReady
  <2>3. CASE Reply("password", <<<<"password_request">>>>)
    <3>1. <<"password_request">>[1] # "ready"
      OBVIOUS
    <3> QED
      BY <2>1, <2>3, <3>1, LoginReplyKeeps DEF BeforeReady
  <2>4. CASE Reply("sasl_first", <<<<"sasl", setup.mechanisms>>>>)
    <3>1. <<"sasl", setup.mechanisms>>[1] # "ready"
      OBVIOUS
    <3> QED
      BY <2>1, <2>4, <3>1, LoginReplyKeeps DEF BeforeReady
  <2>5. CASE Reply("password", <<<<"unsupported">>>>)
    <3>1. <<"unsupported">>[1] # "ready"
      OBVIOUS
    <3> QED
      BY <2>1, <2>5, <3>1, LoginReplyKeeps DEF BeforeReady
  <2> QED
    BY <1>2, <2>2, <2>3, <2>4, <2>5 DEF ServerStartup
<1>3. CASE ServerRefuses
  <2>1. toServer # <<>> /\ server # "none" /\ Refuse
    BY <1>3 DEF ServerRefuses
  <2> QED
    BY <2>1, RefuseKeeps
<1>4. CASE ServerPassword
  <2>1. toServer # <<>> /\ server = "password" /\ (LogIn(<<>>) \/ Refuse)
    BY <1>4 DEF ServerPassword
  <2> QED
    BY <2>1, Empty, LogInKeeps, RefuseKeeps DEF BeforeReady
<1>5. CASE ServerFirst
  <2>1. toServer # <<>> /\ server = "sasl_first"
        /\ (Reply("sasl_final", <<<<"server_first">>>>) \/ Refuse)
    BY <1>5 DEF ServerFirst
  <2>2. <<"server_first">>[1] # "ready"
    OBVIOUS
  <2> QED
    BY <2>1, <2>2, LoginReplyKeeps, RefuseKeeps DEF BeforeReady
<1>6. CASE ServerFinal
  <2>1. toServer # <<>> /\ server = "sasl_final" /\ (LogIn(<<<<"server_final">>>>) \/ Refuse)
    BY <1>6 DEF ServerFinal
  <2>2. IsSeq(<<<<"server_final">>>>) /\ No(<<<<"server_final">>>>, "ready")
    <3>1. <<"server_final">>[1] # "ready"
      OBVIOUS
    <3> QED
      BY <3>1, Single
  <2> QED
    BY <2>1, <2>2, LogInKeeps, RefuseKeeps DEF BeforeReady
<1>7. CASE ServerQuery
  BY <1>7, ServerQueryKeeps
<1>8. CASE ServerCommits
  BY <1>8, ServerCommitsKeeps
<1>9. CASE ServerRefusesCommand
  BY <1>9, ServerRefusesCommandKeeps
<1>10. CASE ServerEnds
  <2>1. server # "none" /\ toServer # <<>> /\ Reply("gone", <<<<"eof">>>>)
    BY <1>10 DEF ServerEnds
  <2>2. IsSeq(<<<<"eof">>>>) /\ No(<<<<"eof">>>>, "ready")
    <3>1. <<"eof">>[1] # "ready"
      OBVIOUS
    <3> QED
      BY <3>1, Single
  <2> QED
    BY <2>1, <2>2, ReplySends, ServerKeeps
<1>11. CASE ServerNotices
  <2>1. /\ server # "none" /\ server' = "gone" /\ NoReadySent /\ ServerTakes
        /\ UNCHANGED <<pc, current, returned, executed, error>>
    BY <1>11 DEF ServerNotices, NoReadySent, ServerTakes, clientVars
  <2> QED
    BY <2>1, ServerKeeps
<1> QED
  BY <1>1, <1>2, <1>3, <1>4, <1>5, <1>6, <1>7, <1>8, <1>9, <1>10, <1>11 DEF ServerNext

-----------------------------------------------------------------------------
(* The refinement. *)

LEMMA NextIInv ==
    ASSUME IInv, [Next]_vars
    PROVE  IInv'
<1>1. CASE UNCHANGED vars
  BY <1>1 DEF vars, IInv, Kind, Counts, Queries, OneQuery, Readies, OneReady, IsSeq, No, AtMostOne,
              ErrorFirst
<1> QED
  BY <1>1, ClientNextKeeps, ServerNextKeeps, ServerStopsKeeps, BreakKeeps DEF Next

Outcome == IF pc \in {"succeeded", "failed"} THEN pc ELSE "open"

\* A step that the abstract connection does not see.
LEMMA Stutters ==
    ASSUME UNCHANGED <<current, returned, executed>>, Outcome' = Outcome
    PROVE  [Channel!Next]_(Channel!vars)
BY DEF Channel!vars, Outcome

LEMMA Fails ==
    ASSUME pc \notin {"succeeded", "failed"}, pc' = "failed",
           UNCHANGED <<current, returned, executed>>
    PROVE  [Channel!Next]_(Channel!vars)
BY DEF Channel!Fail, Channel!Next

LEMMA ClientImplements ==
    ASSUME IInv, ClientNext
    PROVE  [Channel!Next]_(Channel!vars)
<1> USE DEF serverVars
<1>1. CASE ConnectFails \/ NegotiationFails \/ LoginRefused \/ RunRefused \/ ReadFails \/ FinishFails
  <2>1. /\ pc \notin {"succeeded", "failed"} /\ pc' = "failed"
        /\ UNCHANGED <<current, returned, executed>>
    BY <1>1 DEF ConnectFails, NegotiationFails, LoginRefused, RunRefused, ReadFails, FinishFails, Raise
  <2> QED
    BY <2>1, Fails
<1>2. CASE Connect \/ Secured \/ Unsecured \/ LoginReady
  <2>1. /\ pc \notin {"succeeded", "failed"} /\ pc' \notin {"succeeded", "failed"}
        /\ UNCHANGED <<current, returned, executed>>
    BY <1>2 DEF Connect, Secured, Unsecured, StartUp, LoginReady
  <2> QED
    BY <2>1, Stutters DEF Outcome
<1>3. CASE LoginPassword \/ LoginSASL \/ LoginSASLContinue \/ LoginSASLFinal \/ LoginInfo
           \/ RunComplete \/ RunError
  <2>1. UNCHANGED <<pc, current, returned, executed>>
    BY <1>3 DEF LoginPassword, LoginSASL, LoginSASLContinue, LoginSASLFinal, LoginInfo, LoginStep,
                RunComplete, RunError, clientVars
  <2> QED
    BY <2>1, Stutters DEF Outcome
<1>4. CASE Run
  <2>1. current = returned
    BY <1>4 DEF Run, IInv, Counts
  <2> QED
    BY <1>4, <2>1 DEF Run, Channel!Issue, Channel!Next
<1>5. CASE RunReady
  <2>1. /\ Len(executed) = current /\ current = returned + 1 /\ returned \in Nat
    BY <1>5, RunReadyIs DEF IInv, Kind
  <2> QED
    BY <1>5, <2>1 DEF RunReady, Channel!Return, Channel!Next
<1>6. CASE Finish
  <2>1. returned = LastCommand
    BY <1>6 DEF Finish, IInv, Counts
  <2> QED
    BY <1>6, <2>1 DEF Finish, Channel!Succeed, Channel!Next
<1> QED
  BY <1>1, <1>2, <1>3, <1>4, <1>5, <1>6 DEF ClientNext

LEMMA ServerImplements ==
    ASSUME IInv, ServerNext \/ ServerStops \/ Break
    PROVE  [Channel!Next]_(Channel!vars)
<1> USE DEF serverVars, clientVars
<1>1. CASE ServerCommits
  <2>1. /\ executed' = Append(executed, current) /\ Len(executed) + 1 = current
        /\ UNCHANGED <<pc, current, returned>>
    BY <1>1, ServerCommitsKeeps DEF ServerCommits
  <2>2. Len(executed) < current
    BY <2>1, SeqIs DEF IInv, Kind
  <2> QED
    BY <2>1, <2>2 DEF Channel!Execute, Channel!Next
<1>2. CASE ~ServerCommits
  <2>1. UNCHANGED <<pc, current, returned, executed>>
    <3> USE DEF Reply, Refuse, LogIn
    <3>1. CASE ServerSSL \/ ServerStartup \/ ServerRefuses \/ ServerPassword
      BY <3>1 DEF ServerSSL, ServerStartup, ServerRefuses, ServerPassword
    <3>2. CASE ServerFirst \/ ServerFinal \/ ServerQuery
      BY <3>2 DEF ServerFirst, ServerFinal, ServerQuery
    <3>3. CASE ServerRefusesCommand \/ ServerEnds \/ ServerNotices
      BY <3>3 DEF ServerRefusesCommand, ServerEnds, ServerNotices
    <3>4. CASE ServerStops \/ Break
      BY <3>4 DEF ServerStops, Break
    <3> QED
      BY <1>2, <3>1, <3>2, <3>3, <3>4 DEF ServerNext
  <2> QED
    BY <2>1, Stutters DEF Outcome
<1> QED
  BY <1>1, <1>2

LEMMA StepImplements ==
    ASSUME IInv, [Next]_vars
    PROVE  [Channel!Next]_(Channel!vars)
<1>1. CASE UNCHANGED vars
  BY <1>1, Stutters DEF vars, Outcome
<1> QED
  BY <1>1, ClientImplements, ServerImplements DEF Next

\* For any number of commands and any servers, and whatever is lost or breaks
\* when: the lambda's connection is an implementation of CommandChannel, so
\* commands execute in order and at most once (core.py, execute_simple), and
\* no run returns before its command has committed.
THEOREM ConnectionImplementsChannel == Spec => ImplementsChannel
<1>1. Init => Channel!Init
  BY DEF Init, Channel!Init
<1> QED
  BY <1>1, InitIInv, NextIInv, StepImplements, PTL DEF Spec, ImplementsChannel, Channel!Spec

\* What is proved of every CommandChannel.
ChannelProofs == INSTANCE CommandChannelProofs WITH
    issued <- current,
    outcome <- IF pc \in {"succeeded", "failed"} THEN pc ELSE "open"

\* So what the server has committed is always a beginning of the lambda's list
\* of commands, in order, none twice, and at most one more than the lambda
\* knows of, wherever the connection broke (core.py, execute_simple).
COROLLARY ExecutesInOrder == Spec => []Channel!ExecutedInOrder
<1>1. Channel!Init => ChannelProofs!Init
  BY DEF Channel!Init, ChannelProofs!Init
<1>2. [Channel!Next]_(Channel!vars) => [ChannelProofs!Next]_(ChannelProofs!vars)
  BY DEF Channel!Next, Channel!Issue, Channel!Execute, Channel!Return, Channel!Succeed, Channel!Fail,
         Channel!vars, ChannelProofs!Next, ChannelProofs!Issue, ChannelProofs!Execute,
         ChannelProofs!Return, ChannelProofs!Succeed, ChannelProofs!Fail, ChannelProofs!vars
<1>3. ChannelProofs!ExecutedInOrder => Channel!ExecutedInOrder
  BY DEF ChannelProofs!ExecutedInOrder, Channel!ExecutedInOrder
<1>4. Channel!Spec => ChannelProofs!Spec
  BY <1>1, <1>2, PTL DEF Channel!Spec, ChannelProofs!Spec
<1>5. ChannelProofs!Spec => []ChannelProofs!ExecutedInOrder
  BY ChannelProofs!ExecutedInOrderHolds
<1> QED
  BY <1>3, <1>4, <1>5, ConnectionImplementsChannel, PTL DEF ImplementsChannel

-----------------------------------------------------------------------------
(***************************************************************************)
(* Client and server keep step.  First, what is on its way as a set, and   *)
(* three facts about its order.                                            *)
(***************************************************************************)
Messages(s) == {s[k] : k \in DOMAIN s}

\* The messages that the login waits for: each is a question of the server, or
\* its last word.
Tokens == {"S", "N", "password_request", "sasl", "server_first", "ready"}
NoToken(s) == \A m \in Messages(s) : m[1] \notin Tokens
OneToken(s) == \A j, k \in DOMAIN s : s[j][1] \in Tokens /\ s[k][1] \in Tokens => j = k

NoEof(s) == \A m \in Messages(s) : m[1] # "eof"
EofLast(s) == \A k \in DOMAIN s : s[k][1] = "eof" => k = Len(s)

ReadyFollows(s) ==
    \A k \in DOMAIN s : s[k][1] = "complete" => \E j \in DOMAIN s : k < j /\ s[j][1] = "ready"

LEMMA NoneSent ==
    /\ Messages(<<>>) = {} /\ OneToken(<<>>) /\ EofLast(<<>>) /\ ReadyFollows(<<>>)
<1>1. DOMAIN <<>> = {}
  OBVIOUS
<1> QED
  BY <1>1 DEF Messages, OneToken, EofLast, ReadyFollows

LEMMA OneSent ==
    ASSUME NEW m
    PROVE  /\ IsSeq(<<m>>) /\ Messages(<<m>>) = {m} /\ OneToken(<<m>>) /\ EofLast(<<m>>)
           /\ m[1] # "complete" => ReadyFollows(<<m>>)
<1>1. DOMAIN <<m>> = {1} /\ <<m>>[1] = m /\ Len(<<m>>) = 1
  OBVIOUS
<1>2. IsSeq(<<m>>)
  BY Single
<1> QED
  BY <1>1, <1>2 DEF Messages, OneToken, EofLast, ReadyFollows

LEMMA TwoSent ==
    ASSUME NEW m, NEW n, m[1] \notin Tokens, m[1] # "eof", n[1] # "complete",
           m[1] = "complete" => n[1] = "ready"
    PROVE  /\ IsSeq(<<m, n>>) /\ Messages(<<m, n>>) = {m, n}
           /\ OneToken(<<m, n>>) /\ EofLast(<<m, n>>) /\ ReadyFollows(<<m, n>>)
<1> DEFINE s == <<m, n>>
<1>1. DOMAIN s = {1, 2} /\ s[1] = m /\ s[2] = n /\ Len(s) = 2
  OBVIOUS
<1>2. IsSeq(s)
  BY Pair
<1> HIDE DEF s
<1>3. Messages(s) = {m, n}
  BY <1>1 DEF Messages
<1>4. OneToken(s) /\ EofLast(s) /\ ReadyFollows(s)
  BY <1>1 DEF OneToken, EofLast, ReadyFollows
<1> QED
  BY <1>2, <1>3, <1>4 DEF s

\* What follows the first message.
LEMMA TailSent ==
    ASSUME NEW s, IsSeq(s), s # <<>>
    PROVE  /\ Head(s) \in Messages(s) /\ Messages(Tail(s)) \subseteq Messages(s)
           /\ OneToken(s) => OneToken(Tail(s))
           /\ OneToken(s) /\ Head(s)[1] \in Tokens => NoToken(Tail(s))
           /\ EofLast(s) => EofLast(Tail(s))
           /\ EofLast(s) /\ Head(s)[1] = "eof" => Messages(s) = {Head(s)}
           /\ ReadyFollows(s) => ReadyFollows(Tail(s))
<1>1. /\ Len(s) \in Nat \ {0} /\ DOMAIN s = 1..Len(s) /\ Head(s) = s[1]
      /\ DOMAIN Tail(s) = 1..Len(s) - 1 /\ Len(Tail(s)) = Len(s) - 1
      /\ \A k \in 1..Len(s) - 1 : Tail(s)[k] = s[k + 1]
  BY TailOf, SeqIs
<1>2. Head(s) \in Messages(s) /\ Messages(Tail(s)) \subseteq Messages(s)
  BY <1>1 DEF Messages
<1>3. OneToken(s) => OneToken(Tail(s))
  BY <1>1 DEF OneToken
<1>4. OneToken(s) /\ Head(s)[1] \in Tokens => NoToken(Tail(s))
  BY <1>1 DEF OneToken, NoToken, Messages
<1>5. EofLast(s) => EofLast(Tail(s))
  BY <1>1 DEF EofLast
<1>6. EofLast(s) /\ Head(s)[1] = "eof" => Messages(s) = {Head(s)}
  BY <1>1 DEF EofLast, Messages
<1>7. ASSUME ReadyFollows(s) PROVE ReadyFollows(Tail(s))
  <2> SUFFICES ASSUME NEW k \in DOMAIN Tail(s), Tail(s)[k][1] = "complete"
               PROVE  \E j \in DOMAIN Tail(s) : k < j /\ Tail(s)[j][1] = "ready"
    BY DEF ReadyFollows
  <2>1. PICK j \in DOMAIN s : k + 1 < j /\ s[j][1] = "ready"
    BY <1>1, <1>7 DEF ReadyFollows
  <2>2. j - 1 \in DOMAIN Tail(s) /\ k < j - 1 /\ Tail(s)[j - 1][1] = "ready"
    BY <1>1, <2>1
  <2> QED
    BY <2>2
<1> QED
  BY <1>2, <1>3, <1>4, <1>5, <1>6, <1>7

LEMMA ConcatSent ==
    ASSUME NEW s, NEW t, IsSeq(s), IsSeq(t)
    PROVE  /\ Messages(s \o t) = Messages(s) \cup Messages(t)
           /\ OneToken(s) /\ NoToken(t) => OneToken(s \o t)
           /\ NoToken(s) /\ OneToken(t) => OneToken(s \o t)
           /\ NoEof(s) /\ EofLast(t) => EofLast(s \o t)
           /\ ReadyFollows(s) /\ ReadyFollows(t) => ReadyFollows(s \o t)
<1> DEFINE u == s \o t
<1>1. /\ Len(s) \in Nat /\ DOMAIN s = 1..Len(s)
      /\ Len(t) \in Nat /\ DOMAIN t = 1..Len(t)
  BY SeqIs
<1>2. /\ DOMAIN u = 1..Len(s) + Len(t) /\ Len(u) = Len(s) + Len(t)
      /\ \A k \in 1..Len(s) : u[k] = s[k]
      /\ \A k \in 1..Len(t) : u[Len(s) + k] = t[k]
  BY ConcatOf, SeqIs
<1> HIDE DEF u
<1>3. \A k \in DOMAIN u :
        \/ k \in DOMAIN s /\ u[k] = s[k]
        \/ k - Len(s) \in DOMAIN t /\ u[k] = t[k - Len(s)]
  <2> SUFFICES ASSUME NEW k \in 1..Len(s) + Len(t), k \notin 1..Len(s)
               PROVE  k - Len(s) \in 1..Len(t) /\ u[k] = t[k - Len(s)]
    BY <1>1, <1>2
  <2>1. k - Len(s) \in 1..Len(t) /\ k = Len(s) + (k - Len(s))
    BY <1>1
  <2> QED
    BY <1>2, <2>1
<1>4. \A k \in DOMAIN t : Len(s) + k \in DOMAIN u
  BY <1>1, <1>2
<1>5. Messages(u) = Messages(s) \cup Messages(t)
  <2>1. Messages(u) \subseteq Messages(s) \cup Messages(t)
    BY <1>3 DEF Messages
  <2>2. Messages(s) \subseteq Messages(u)
    BY <1>1, <1>2 DEF Messages
  <2>3. Messages(t) \subseteq Messages(u)
    BY <1>1, <1>2, <1>4 DEF Messages
  <2> QED
    BY <2>1, <2>2, <2>3
<1>6. OneToken(s) /\ NoToken(t) => OneToken(u)
  BY <1>3 DEF OneToken, NoToken, Messages
<1>7. ASSUME NoToken(s), OneToken(t) PROVE OneToken(u)
  <2> SUFFICES ASSUME NEW j \in DOMAIN u, NEW k \in DOMAIN u, u[j][1] \in Tokens, u[k][1] \in Tokens
               PROVE  j = k
    BY DEF OneToken
  <2>1. /\ j - Len(s) \in DOMAIN t /\ t[j - Len(s)][1] \in Tokens
        /\ k - Len(s) \in DOMAIN t /\ t[k - Len(s)][1] \in Tokens
    BY <1>3, <1>7 DEF NoToken, Messages
  <2>2. j - Len(s) = k - Len(s)
    BY <1>7, <2>1 DEF OneToken
  <2> QED
    BY <1>1, <1>2, <2>2
<1>8. ASSUME NoEof(s), EofLast(t) PROVE EofLast(u)
  <2> SUFFICES ASSUME NEW k \in DOMAIN u, u[k][1] = "eof" PROVE k = Len(u)
    BY DEF EofLast
  <2>1. k - Len(s) \in DOMAIN t /\ t[k - Len(s)][1] = "eof"
    BY <1>3, <1>8 DEF NoEof, Messages
  <2>2. k - Len(s) = Len(t)
    BY <1>8, <2>1 DEF EofLast
  <2> QED
    BY <1>1, <1>2, <2>2
<1>9. ASSUME ReadyFollows(s), ReadyFollows(t) PROVE ReadyFollows(u)
  <2> SUFFICES ASSUME NEW k \in DOMAIN u, u[k][1] = "complete"
               PROVE  \E j \in DOMAIN u : k < j /\ u[j][1] = "ready"
    BY DEF ReadyFollows
  <2>1. CASE k \in DOMAIN s /\ u[k] = s[k]
    <3>1. PICK j \in DOMAIN s : k < j /\ s[j][1] = "ready"
      BY <1>9, <2>1 DEF ReadyFollows
    <3>2. j \in DOMAIN u /\ u[j] = s[j]
      BY <1>1, <1>2
    <3> QED
      BY <3>1, <3>2
  <2>2. CASE k - Len(s) \in DOMAIN t /\ u[k] = t[k - Len(s)]
    <3>1. PICK j \in DOMAIN t : k - Len(s) < j /\ t[j][1] = "ready"
      BY <1>9, <2>2 DEF ReadyFollows
    <3>2. Len(s) + j \in DOMAIN u /\ u[Len(s) + j] = t[j] /\ k < Len(s) + j
      BY <1>1, <1>2, <3>1
    <3> QED
      BY <3>1, <3>2
  <2> QED
    BY <1>3, <2>1, <2>2
<1> QED
  BY <1>5, <1>6, <1>7, <1>8, <1>9 DEF u

-----------------------------------------------------------------------------
\* What is on its way belongs to what the client and the server are doing.
Streams ==
    /\ setup \in Setup
    /\ EofLast(toClient) /\ (server # "gone" => NoEof(toClient))
    /\ ReadyFollows(toClient)
    /\ \A m \in Messages(toClient) : m[1] = "complete" => m[2] = current
    /\ \A m \in Messages(toServer) : m[1] = "client_first" => Accepts(m[2], m[3])
    /\ pc = "idle" => toServer = <<>>
    /\ pc = "running" => \A m \in Messages(toServer) : m[1] = "query"

\* During the login client and server take turns.
TakeTurns ==
    /\ OneToken(toClient)
    /\ toServer # <<>> => NoToken(toClient) /\ (server # "gone" => Tail(toServer) = <<>>)

\* What is on its way fits the stage of the ScramClient.
StageFits ==
    /\ server \in {"none", "negotiating", "startup", "password"} => stage = "none"
    /\ \A m \in Messages(toClient) :
        /\ m[1] = "sasl" =>
             stage = "none" /\ m[2] = setup.mechanisms /\ server \in {"sasl_first", "gone"}
        /\ m[1] = "server_first" => stage = "get_client_first" /\ server \in {"sasl_final", "gone"}
        /\ m[1] = "server_final" =>
             stage = "get_client_final" /\ \A n \in Messages(toServer) : n[1] # "client_final"
    /\ AtMostOne(toClient, "server_final")
    /\ \A m \in Messages(toServer) :
        /\ m[1] = "client_first" => stage = "get_client_first"
        /\ m[1] = "client_final" => stage = "get_client_final"

Login ==
    /\ pc = "new" => stage = "none" /\ toServer = <<>> /\ toClient = <<>>
    /\ pc \in {"ssl", "login"} => TakeTurns /\ StageFits

\* What the server sends as it goes on to state.
Sent(t, state) ==
    /\ IsSeq(t) /\ OneToken(t) /\ EofLast(t) /\ ReadyFollows(t)
    /\ state # "gone" => NoEof(t)
    /\ \A m \in Messages(t) :
        /\ m[1] = "complete" => m[2] = current
        /\ m[1] = "sasl" => server = "startup" /\ m[2] = setup.mechanisms /\ state = "sasl_first"
        /\ m[1] = "server_first" => Head(toServer)[1] = "client_first" /\ state = "sasl_final"
        /\ m[1] = "server_final" => Head(toServer)[1] = "client_final" /\ AtMostOne(t, "server_final")
    /\ state \in {"none", "negotiating", "startup", "password"} =>
          server \in {"none", "negotiating", "startup", "password"}

LEMMA SentStreams ==
    ASSUME IInv, Streams, NEW t, NEW state, Sent(t, state), server' = state, server # "gone",
           toClient' = toClient \/ toClient' = toClient \o t,
           Messages(toServer') \subseteq Messages(toServer), toServer = <<>> => toServer' = <<>>,
           UNCHANGED <<pc, current, setup>>
    PROVE  Streams'
<1>1. IsSeq(toClient) /\ IsSeq(t)
  BY DEF IInv, Kind, Sent
<1>2. /\ EofLast(toClient) /\ NoEof(toClient) /\ ReadyFollows(toClient)
      /\ EofLast(t) /\ ReadyFollows(t) /\ (state # "gone" => NoEof(t))
  BY DEF Streams, Sent
<1>3. Messages(toClient') \subseteq Messages(toClient) \cup Messages(t)
  BY <1>1, ConcatSent
<1>4. EofLast(toClient') /\ ReadyFollows(toClient')
  BY <1>1, <1>2, ConcatSent
<1>5. state # "gone" => NoEof(toClient')
  BY <1>2, <1>3 DEF NoEof
<1>6. \A m \in Messages(toClient') : m[1] = "complete" => m[2] = current
  BY <1>3 DEF Streams, Sent
<1>7. \A m \in Messages(toServer') : m[1] = "client_first" => Accepts(m[2], m[3])
  BY DEF Streams
<1>8. /\ pc = "idle" => toServer' = <<>>
      /\ pc = "running" => \A m \in Messages(toServer') : m[1] = "query"
  BY DEF Streams
<1>9. setup \in Setup
  BY DEF Streams
<1> QED
  BY <1>4, <1>5, <1>6, <1>7, <1>8, <1>9 DEF Streams, Accepts, EofLast, ReadyFollows, NoEof, Messages

\* An answer of the server.
LEMMA ReplyKeeps ==
    ASSUME IInv, Streams, Login, NEW t, NEW state, Sent(t, state), Reply(state, t),
           server # "gone", toServer # <<>>
    PROVE  Streams' /\ Login'
<1>1. /\ UNCHANGED <<pc, stage, current, setup>> /\ server' = state
      /\ toServer' = Tail(toServer)
      /\ toClient' = toClient \/ toClient' = toClient \o t
  BY DEF Reply, clientVars
<1>2. IsSeq(toServer) /\ IsSeq(toClient) /\ IsSeq(t)
  BY DEF IInv, Kind, Sent
<1>3. Messages(toServer') \subseteq Messages(toServer) /\ Head(toServer) \in Messages(toServer)
  BY <1>1, <1>2, TailSent
<1>4. Streams'
  BY <1>1, <1>3, SentStreams
<1>5. Messages(toClient') \subseteq Messages(toClient) \cup Messages(t)
  BY <1>1, <1>2, ConcatSent
<1>6. ASSUME pc \in {"ssl", "login"} PROVE TakeTurns' /\ StageFits'
  <2>1. TakeTurns /\ StageFits
    BY <1>6 DEF Login
  <2>2. toServer' = <<>> /\ NoToken(toClient)
    BY <1>1, <2>1 DEF TakeTurns
  <2>3. OneToken(toClient')
    BY <1>1, <1>2, <2>1, <2>2, ConcatSent DEF TakeTurns, Sent
  <2>4. \A m \in Messages(toClient) : m[1] # "sasl" /\ m[1] # "server_first"
    BY <2>2 DEF NoToken, Tokens
  <2>5. Messages(toServer') = {}
    BY <2>2, NoneSent
  <2>6. \A m \in Messages(toClient') :
          /\ m[1] = "sasl" => stage = "none" /\ m[2] = setup.mechanisms /\ state = "sasl_first"
          /\ m[1] = "server_first" => stage = "get_client_first" /\ state = "sasl_final"
          /\ m[1] = "server_final" => stage = "get_client_final"
    BY <1>3, <1>5, <2>1, <2>4 DEF StageFits, Sent
  <2>7. state \in {"none", "negotiating", "startup", "password"} => stage = "none"
    BY <2>1 DEF StageFits, Sent
  <2>8. TakeTurns'
    BY <2>2, <2>3 DEF TakeTurns, OneToken
  <2>9. AtMostOne(toClient', "server_final")
    <3>1. CASE \E m \in Messages(t) : m[1] = "server_final"
      <4>1. No(toClient, "server_final")
        BY <1>3, <2>1, <3>1 DEF StageFits, Sent, No, Messages
      <4>2. AtMostOne(t, "server_final") /\ AtMostOne(toClient, "server_final")
        BY <2>1, <3>1 DEF StageFits, Sent
      <4> QED
        BY <1>1, <1>2, <4>1, <4>2, ConcatKeeps
    <3>2. CASE \A m \in Messages(t) : m[1] # "server_final"
      <4>1. No(t, "server_final") /\ AtMostOne(toClient, "server_final")
        BY <2>1, <3>2 DEF StageFits, No, Messages
      <4> QED
        BY <1>1, <1>2, <4>1, ConcatKeeps
    <3> QED
      BY <3>1, <3>2
  <2>10. StageFits'
    BY <1>1, <2>5, <2>6, <2>7, <2>9 DEF StageFits, Messages, AtMostOne
  <2> QED
    BY <2>8, <2>10
<1>7. pc # "new"
  BY DEF Login
<1> QED
  BY <1>1, <1>4, <1>6, <1>7 DEF Login

\* One message of no consequence.
LEMMA PlainSent ==
    ASSUME NEW m, NEW state \in {"startup", "password"}, server \in {"negotiating", "startup"},
           m[1] \in {"S", "N", "password_request", "unsupported"}
    PROVE  Sent(<<m>>, state)
<1>1. /\ IsSeq(<<m>>) /\ Messages(<<m>>) = {m} /\ OneToken(<<m>>) /\ EofLast(<<m>>)
      /\ ReadyFollows(<<m>>)
  BY OneSent
<1> QED
  BY <1>1 DEF Sent, NoEof

\* An error, and the end of the connection.
LEMMA RefusalSent == Sent(<<<<"error">>, <<"eof">>>>, "gone")
<1>1. <<"error">>[1] = "error" /\ <<"eof">>[1] = "eof"
  OBVIOUS
<1> DEFINE t == <<<<"error">>, <<"eof">>>>
<1>2. IsSeq(t) /\ Messages(t) = {<<"error">>, <<"eof">>} /\ OneToken(t) /\ EofLast(t) /\ ReadyFollows(t)
  BY <1>1, TwoSent DEF Tokens
<1> HIDE DEF t
<1>3. Sent(t, "gone")
  BY <1>1, <1>2 DEF Sent
<1> QED
  BY <1>3 DEF t

\* What follows a login that the server accepts.
LEMMA WelcomeSent ==
    /\ Sent(<<<<"info">>, <<"ready">>>>, "idle")
    /\ \A m \in Messages(<<<<"info">>, <<"ready">>>>) : m[1] \in {"info", "ready"}
<1>1. <<"info">>[1] = "info" /\ <<"ready">>[1] = "ready"
  OBVIOUS
<1> DEFINE t == <<<<"info">>, <<"ready">>>>
<1>2. IsSeq(t) /\ Messages(t) = {<<"info">>, <<"ready">>} /\ OneToken(t) /\ EofLast(t) /\ ReadyFollows(t)
  BY <1>1, TwoSent DEF Tokens
<1> HIDE DEF t
<1>3. Sent(t, "idle") /\ \A m \in Messages(t) : m[1] \in {"info", "ready"}
  BY <1>1, <1>2 DEF Sent, NoEof
<1> QED
  BY <1>3 DEF t

LEMMA LogInSent ==
    ASSUME NEW t, t = <<>> \/ (t = <<<<"server_final">>>> /\ Head(toServer)[1] = "client_final")
    PROVE  Sent(t \o <<<<"info">>, <<"ready">>>>, "idle")
<1> DEFINE w == <<<<"info">>, <<"ready">>>>
<1>1. Sent(w, "idle") /\ \A m \in Messages(w) : m[1] \in {"info", "ready"}
  BY WelcomeSent
<1>2. <<"server_final">>[1] = "server_final"
  OBVIOUS
<1>3. /\ IsSeq(t) /\ NoToken(t) /\ NoEof(t) /\ EofLast(t) /\ ReadyFollows(t)
      /\ AtMostOne(t, "server_final")
      /\ \A m \in Messages(t) : m[1] = "server_final" /\ Head(toServer)[1] = "client_final"
  <2>1. CASE t = <<>>
    BY <2>1, Empty, NoneSent DEF NoToken, NoEof
  <2>2. CASE t = <<<<"server_final">>>> /\ Head(toServer)[1] = "client_final"
    BY <1>2, <2>2, OneSent, Single DEF NoToken, NoEof, Tokens
  <2> QED
    BY <2>1, <2>2
<1> HIDE DEF w
<1>4. /\ Messages(t \o w) = Messages(t) \cup Messages(w)
      /\ OneToken(t \o w) /\ EofLast(t \o w) /\ ReadyFollows(t \o w)
  BY <1>1, <1>3, ConcatSent DEF Sent
<1>5. IsSeq(t \o w)
  BY <1>1, <1>3, ConcatOf DEF Sent
<1>6. AtMostOne(t \o w, "server_final")
  <2>1. No(w, "server_final") /\ IsSeq(w)
    BY <1>1 DEF No, Messages, Sent
  <2> QED
    BY <1>3, <2>1, ConcatKeeps
<1>7. Sent(t \o w, "idle")
  BY <1>1, <1>3, <1>4, <1>5, <1>6 DEF Sent, NoEof
<1> QED
  BY <1>7 DEF w

\* The first message on its way to a server that logs the client in.
LEMMA HandshakeKeeps ==
    ASSUME IInv, Streams, Login,
           ServerSSL \/ ServerStartup \/ ServerRefuses \/ ServerPassword \/ ServerFirst \/ ServerFinal
    PROVE  Streams' /\ Login'
<1>1. toServer # <<>> /\ server # "gone"
  BY DEF ServerSSL, ServerStartup, ServerRefuses, ServerPassword, ServerFirst, ServerFinal, Reads
<1>2. CASE Refuse
  <2>1. Reply("gone", <<<<"error">>, <<"eof">>>>)
    BY <1>2 DEF Refuse
  <2> QED
    BY <1>1, <2>1, RefusalSent, ReplyKeeps
<1>3. ASSUME NEW t, t = <<>> \/ (t = <<<<"server_final">>>> /\ Head(toServer)[1] = "client_final"), LogIn(t)
      PROVE  Streams' /\ Login'
  <2>1. Reply("idle", t \o <<<<"info">>, <<"ready">>>>)
    BY <1>3 DEF LogIn
  <2>2. Sent(t \o <<<<"info">>, <<"ready">>>>, "idle")
    BY <1>3, LogInSent
  <2> QED
    BY <1>1, <2>1, <2>2, ReplyKeeps
<1>4. CASE ServerSSL
  <2>1. PICK m \in {<<"S">>, <<"N">>} : Reply("startup", <<m>>)
    <3>1. Reply("startup", <<<<IF setup.tls THEN "S" ELSE "N">>>>)
      BY <1>4 DEF ServerSSL
    <3>2. <<IF setup.tls THEN "S" ELSE "N">> \in {<<"S">>, <<"N">>}
      OBVIOUS
    <3> QED
      BY <3>1, <3>2
  <2>2. m[1] \in {"S", "N"}
    OBVIOUS
  <2>3. Sent(<<m>>, "startup")
    <3>1. m[1] \in {"S", "N", "password_request", "unsupported"} /\ server \in {"negotiating", "startup"}
      BY <1>4, <2>2 DEF ServerSSL
    <3> QED
      BY <3>1, PlainSent
  <2> QED
    BY <1>1, <2>1, <2>3, ReplyKeeps
<1>5. CASE ServerStartup
  <2>1. server = "startup"
    BY <1>5 DEF ServerStartup
  <2>2. CASE Reply("password", <<<<"password_request">>>>)
    <3>1. <<"password_request">>[1] = "password_request"
      OBVIOUS
    <3>2. Sent(<<<<"password_request">>>>, "password")
      BY <2>1, <3>1, PlainSent
    <3> QED
      BY <1>1, <2>2, <3>2, ReplyKeeps
  <2>3. CASE Reply("password", <<<<"unsupported">>>>)
    <3>1. <<"unsupported">>[1] = "unsupported"
      OBVIOUS
    <3>2. Sent(<<<<"unsupported">>>>, "password")
      BY <2>1, <3>1, PlainSent
    <3> QED
      BY <1>1, <2>3, <3>2, ReplyKeeps
  <2>4. CASE Reply("sasl_first", <<<<"sasl", setup.mechanisms>>>>)
    <3> DEFINE m == <<"sasl", setup.mechanisms>>
    <3>1. m[1] = "sasl" /\ m[2] = setup.mechanisms
      OBVIOUS
    <3> HIDE DEF m
    <3>2. /\ IsSeq(<<m>>) /\ Messages(<<m>>) = {m} /\ OneToken(<<m>>) /\ EofLast(<<m>>)
          /\ ReadyFollows(<<m>>)
      BY <3>1, OneSent
    <3>3. Sent(<<m>>, "sasl_first")
      BY <2>1, <3>1, <3>2 DEF Sent, NoEof
    <3>4. Reply("sasl_first", <<m>>)
      BY <2>4 DEF m
    <3> QED
      BY <1>1, <3>3, <3>4, ReplyKeeps
  <2> QED
    BY <1>3, <1>5, <2>2, <2>3, <2>4 DEF ServerStartup
<1>6. CASE ServerFirst
  <2>1. Head(toServer)[1] = "client_first"
    BY <1>6 DEF ServerFirst, Reads
  <2>2. CASE Reply("sasl_final", <<<<"server_first">>>>)
    <3> DEFINE m == <<"server_first">>
    <3>1. m[1] = "server_first"
      OBVIOUS
    <3> HIDE DEF m
    <3>2. /\ IsSeq(<<m>>) /\ Messages(<<m>>) = {m} /\ OneToken(<<m>>) /\ EofLast(<<m>>)
          /\ ReadyFollows(<<m>>)
      BY <3>1, OneSent
    <3>3. Sent(<<m>>, "sasl_final")
      BY <2>1, <3>1, <3>2 DEF Sent, NoEof
    <3>4. Reply("sasl_final", <<m>>)
      BY <2>2 DEF m
    <3> QED
      BY <1>1, <3>3, <3>4, ReplyKeeps
  <2> QED
    BY <1>2, <1>6, <2>2 DEF ServerFirst
<1>7. CASE ServerFinal
  <2>1. Head(toServer)[1] = "client_final"
    BY <1>7 DEF ServerFinal, Reads
  <2> QED
    BY <1>2, <1>3, <1>7, <2>1 DEF ServerFinal
<1> QED
  BY <1>2, <1>3, <1>4, <1>5, <1>6, <1>7 DEF ServerRefuses, ServerPassword

LEMMA QuietSent ==
    ASSUME NEW state \in {"idle", "executing", "gone"}
    PROVE  Sent(<<>>, state)
BY NoneSent, Empty DEF Sent, NoEof

LEMMA EndSent ==
    ASSUME NEW last \in {<<>>, <<<<"error">>>>}
    PROVE  LET t == last \o <<<<"eof">>>>
           IN  /\ Sent(t, "gone")
               /\ \A m \in Messages(t) : m[1] \in {"error", "eof"}
<1> DEFINE e == <<"eof">>
<1>1. e[1] = "eof" /\ <<"error">>[1] = "error"
  OBVIOUS
<1> HIDE DEF e
<1>2. /\ IsSeq(<<e>>) /\ Messages(<<e>>) = {e} /\ OneToken(<<e>>) /\ EofLast(<<e>>)
      /\ ReadyFollows(<<e>>)
  BY <1>1, OneSent
<1>3. /\ IsSeq(last) /\ NoToken(last) /\ NoEof(last) /\ ReadyFollows(last)
      /\ \A m \in Messages(last) : m[1] = "error"
  <2>1. CASE last = <<>>
    BY <2>1, NoneSent, Empty DEF NoToken, NoEof
  <2>2. CASE last = <<<<"error">>>>
    BY <1>1, <2>2, OneSent DEF NoToken, NoEof, Tokens
  <2> QED
    BY <2>1, <2>2
<1> DEFINE t == last \o <<e>>
<1>4. IsSeq(t) /\ Messages(t) = Messages(last) \cup {e}
  BY <1>2, <1>3, ConcatOf, ConcatSent
<1>5. OneToken(t) /\ EofLast(t) /\ ReadyFollows(t)
  BY <1>2, <1>3, ConcatSent
<1> HIDE DEF t
<1>6. Sent(t, "gone") /\ \A m \in Messages(t) : m[1] \in {"error", "eof"}
  BY <1>1, <1>3, <1>4, <1>5 DEF Sent
<1> QED
  BY <1>6 DEF t, e

\* The server goes, for a reason of its own.
LEMMA GoneKeeps ==
    ASSUME IInv, Streams, Login, NEW t, Sent(t, "gone"),
           \A m \in Messages(t) : m[1] \in {"error", "eof"},
           server \notin {"none", "gone"}, server' = "gone",
           toClient' = toClient \/ toClient' = toClient \o t,
           UNCHANGED <<pc, stage, current, setup, toServer>>
    PROVE  Streams' /\ Login'
<1>1. Streams'
  BY SentStreams
<1>2. IsSeq(toClient) /\ IsSeq(t)
  BY DEF IInv, Kind, Sent
<1>3. Messages(toClient') \subseteq Messages(toClient) \cup Messages(t)
  BY <1>2, ConcatSent
<1>4. ASSUME pc \in {"ssl", "login"} PROVE TakeTurns' /\ StageFits'
  <2>1. TakeTurns /\ StageFits
    BY <1>4 DEF Login
  <2>2. OneToken(toClient')
    BY <1>2, <2>1, ConcatSent DEF TakeTurns, NoToken, Tokens
  <2>3. NoToken(toClient) => NoToken(toClient')
    BY <1>3 DEF NoToken, Tokens
  <2>4. TakeTurns'
    BY <2>1, <2>2, <2>3 DEF TakeTurns, OneToken, NoToken, Messages
  <2>5. \A m \in Messages(toClient') : m \in Messages(toClient) \/ m[1] \in {"error", "eof"}
    BY <1>3
  <2>6. AtMostOne(toClient', "server_final")
    <3>1. No(t, "server_final") /\ AtMostOne(toClient, "server_final")
      BY <2>1 DEF StageFits, No, Messages
    <3> QED
      BY <1>2, <3>1, ConcatKeeps
  <2>7. StageFits'
    BY <2>1, <2>5, <2>6 DEF StageFits, Messages, AtMostOne
  <2> QED
    BY <2>4, <2>7
<1>5. pc # "new"
  BY DEF IInv, Counts
<1> QED
  BY <1>1, <1>4, <1>5 DEF Login

\* After the login there is nothing for Login to say.
LEMMA AfterLogin ==
    ASSUME pc' \notin {"new", "ssl", "login"}
    PROVE  Login'
BY DEF Login

LEMMA CommandKeeps ==
    ASSUME IInv, Streams, Login, ServerQuery \/ ServerCommits \/ ServerRefusesCommand
    PROVE  Streams' /\ Login'
<1>0. IsSeq(toServer) /\ IsSeq(toClient)
  BY DEF IInv, Kind
<1>1. pc \in {"running", "failed"}
  <2>1. CASE ServerQuery
    <3>1. toServer # <<>> /\ Head(toServer)[1] = "query"
      BY <2>1 DEF ServerQuery, Reads
    <3>2. 1 \in DOMAIN toServer /\ toServer[1] = Head(toServer)
      BY <1>0, <3>1, TailOf, SeqIs
    <3> QED
      BY <3>1, <3>2 DEF IInv, Queries, No, OneQuery
  <2>2. CASE server = "executing"
    BY <2>2, ExecutingIs DEF OneQuery
  <2> QED
    BY <2>1, <2>2 DEF ServerCommits, ServerRefusesCommand
<1>2. UNCHANGED <<pc, stage, current, setup>>
  BY DEF ServerQuery, ServerCommits, ServerRefusesCommand, Reply, clientVars
<1>3. Login'
  BY <1>1, <1>2, AfterLogin
<1>4. CASE ServerQuery
  <2>1. server # "gone" /\ server' = "executing" /\ UNCHANGED <<toClient, toServer>>
    BY <1>4 DEF ServerQuery
  <2> QED
    BY <1>2, <1>3, <2>1, QuietSent, SentStreams
<1>5. CASE ServerCommits
  <2> DEFINE c == <<"complete", Head(toServer)[2]>>
             r == <<"ready">>
             i == <<"info">>
             w == <<c, r>>
  <2>1. c[1] = "complete" /\ c[2] = Head(toServer)[2] /\ r[1] = "ready" /\ i[1] = "info"
    OBVIOUS
  <2>2. /\ server = "executing" /\ server' = "idle" /\ toServer' = Tail(toServer)
        /\ \E n \in {<<>>, <<i>>} : toClient' = toClient \/ toClient' = toClient \o n \o w
    BY <1>5 DEF ServerCommits
  <2> HIDE DEF c, r, i
  <2>3. toServer # <<>> /\ c[2] = current
    BY <2>1, <2>2, ExecutingIs
  <2>4. IsSeq(w) /\ Messages(w) = {c, r} /\ OneToken(w) /\ EofLast(w) /\ ReadyFollows(w)
    BY <2>1, TwoSent DEF Tokens
  <2> HIDE DEF w
  <2>5. PICK n \in {<<>>, <<i>>} : toClient' = toClient \/ toClient' = toClient \o n \o w
    BY <2>2
  <2>6. /\ IsSeq(n) /\ NoToken(n) /\ NoEof(n) /\ ReadyFollows(n)
        /\ \A m \in Messages(n) : m[1] = "info"
    <3>1. CASE n = <<>>
      BY <3>1, NoneSent, Empty DEF NoToken, NoEof
    <3>2. CASE n = <<i>>
      BY <2>1, <3>2, OneSent DEF NoToken, NoEof, Tokens
    <3> QED
      BY <3>1, <3>2
  <2> DEFINE t == n \o w
  <2>7. IsSeq(t) /\ Messages(t) = Messages(n) \cup {c, r}
    BY <2>4, <2>6, ConcatOf, ConcatSent
  <2>8. OneToken(t) /\ EofLast(t) /\ ReadyFollows(t)
    BY <2>4, <2>6, ConcatSent
  <2>9. toClient' = toClient \/ toClient' = toClient \o t
    <3>1. (toClient \o n) \o w = toClient \o (n \o w)
      BY <1>0, <2>4, <2>6, ConcatAssoc, SMTT(30)
    <3> QED
      BY <2>5, <3>1
  <2> HIDE DEF t
  <2>10. Sent(t, "idle")
    BY <2>1, <2>3, <2>6, <2>7, <2>8 DEF Sent, NoEof
  <2>11. Messages(toServer') \subseteq Messages(toServer)
    BY <1>0, <2>2, <2>3, TailSent
  <2>12. server # "gone"
    BY <2>2
  <2> QED
    BY <1>2, <1>3, <2>2, <2>3, <2>9, <2>10, <2>11, <2>12, SentStreams
<1>6. CASE ServerRefusesCommand
  <2> DEFINE t == <<<<"error">>, <<"ready">>>>
  <2>1. <<"error">>[1] = "error" /\ <<"ready">>[1] = "ready"
    OBVIOUS
  <2>2. IsSeq(t) /\ Messages(t) = {<<"error">>, <<"ready">>} /\ OneToken(t) /\ EofLast(t) /\ ReadyFollows(t)
    BY <2>1, TwoSent DEF Tokens
  <2>3. server = "executing" /\ Reply("idle", t)
    BY <1>6 DEF ServerRefusesCommand
  <2>4. toServer # <<>>
    BY <2>3, ExecutingIs
  <2> HIDE DEF t
  <2>5. Sent(t, "idle")
    BY <2>1, <2>2 DEF Sent, NoEof
  <2>6. server # "gone"
    BY <2>3
  <2> QED
    BY <2>3, <2>4, <2>5, <2>6, ReplyKeeps
<1> QED
  BY <1>4, <1>5, <1>6

LEMMA EndKeeps ==
    ASSUME IInv, Streams, Login, ServerEnds \/ ServerNotices \/ ServerStops
    PROVE  Streams' /\ Login'
<1>1. server \notin {"none", "gone"}
  BY DEF ServerEnds, ServerNotices, ServerStops
<1>2. CASE ServerEnds
  <2>1. toServer # <<>> /\ Reply("gone", <<<<"eof">>>>)
    BY <1>2 DEF ServerEnds, Reads
  <2>2. Sent(<<<<"eof">>>>, "gone")
    <3> DEFINE e == <<"eof">>
    <3>1. e[1] = "eof"
      OBVIOUS
    <3> HIDE DEF e
    <3>2. Sent(<<e>>, "gone")
      BY <3>1, OneSent DEF Sent
    <3> QED
      BY <3>2 DEF e
  <2> QED
    BY <1>1, <2>1, <2>2, ReplyKeeps
<1>3. CASE ServerNotices
  <2>1. server' = "gone" /\ UNCHANGED <<pc, stage, current, setup, toServer, toClient>>
    BY <1>3 DEF ServerNotices, clientVars
  <2>2. Sent(<<>>, "gone") /\ Messages(<<>>) = {}
    BY QuietSent, NoneSent
  <2> QED
    BY <1>1, <2>1, <2>2, GoneKeeps
<1>4. CASE ServerStops
  <2>1. PICK last \in {<<>>, <<<<"error">>>>} :
            toClient' = toClient \/ toClient' = toClient \o last \o <<<<"eof">>>>
    BY <1>4 DEF ServerStops
  <2> DEFINE t == last \o <<<<"eof">>>>
  <2>2. Sent(t, "gone") /\ \A m \in Messages(t) : m[1] \in {"error", "eof"}
    BY EndSent
  <2>3. toClient' = toClient \/ toClient' = toClient \o t
    <3>1. IsSeq(last) /\ IsSeq(<<<<"eof">>>>)
      BY Empty, Single
    <3>2. IsSeq(toClient)
      BY DEF IInv, Kind
    <3>3. (toClient \o last) \o <<<<"eof">>>> = toClient \o (last \o <<<<"eof">>>>)
      BY <3>1, <3>2, ConcatAssoc
    <3> QED
      BY <2>1, <3>3
  <2>4. server' = "gone" /\ UNCHANGED <<pc, stage, current, setup, toServer>>
    BY <1>4 DEF ServerStops, clientVars
  <2> HIDE DEF t
  <2> QED
    BY <1>1, <2>2, <2>3, <2>4, GoneKeeps
<1> QED
  BY <1>2, <1>3, <1>4

\* What is on its way is lost.
LEMMA BreakLoses ==
    ASSUME IInv, Streams, Login, Break
    PROVE  Streams' /\ Login'
<1>1. /\ toClient' = <<>> /\ UNCHANGED <<pc, stage, current, setup, server>>
      /\ server # "executing" => toServer' = <<>>
      /\ server = "executing" => toServer' = <<Head(toServer)>>
  BY DEF Break, clientVars, serverVars
<1>2. server = "executing" => toServer # <<>> /\ pc \in {"running", "failed"}
  BY ExecutingIs DEF OneQuery
<1>3. Messages(toServer') \subseteq Messages(toServer)
  <2>1. CASE server = "executing"
    <3>1. Head(toServer) \in Messages(toServer)
      BY <1>2, <2>1, TailSent DEF IInv, Kind
    <3> QED
      BY <1>1, <2>1, <3>1, OneSent
  <2>2. CASE server # "executing"
    BY <1>1, <2>2, NoneSent
  <2> QED
    BY <2>1, <2>2
<1>4. Messages(toClient') = {} /\ OneToken(toClient') /\ EofLast(toClient') /\ ReadyFollows(toClient')
  BY <1>1, NoneSent
<1>5. Streams'
  <2>1. /\ \A m \in Messages(toServer') : m[1] = "client_first" => Accepts(m[2], m[3])
        /\ pc = "idle" => toServer' = <<>>
        /\ pc = "running" => \A m \in Messages(toServer') : m[1] = "query"
    BY <1>1, <1>2, <1>3 DEF Streams
  <2>2. setup \in Setup
    BY DEF Streams
  <2> QED
    BY <1>1, <1>4, <2>1, <2>2 DEF Streams, Accepts, EofLast, ReadyFollows, NoEof, Messages
<1>6. ASSUME pc \in {"ssl", "login"} PROVE TakeTurns' /\ StageFits'
  <2>1. toServer' = <<>>
    BY <1>1, <1>2, <1>6
  <2>2. Messages(toServer') = {}
    BY <2>1, NoneSent
  <2>3. TakeTurns'
    BY <1>4, <2>1 DEF TakeTurns, OneToken
  <2>4. server \in {"none", "negotiating", "startup", "password"} => stage = "none"
    BY <1>6 DEF Login, StageFits
  <2>5. StageFits'
    <3>1. AtMostOne(toClient', "server_final")
      BY <1>1, Empty
    <3>2. AtMostOne(toClient, "server_final")'
      BY <3>1 DEF AtMostOne
    <3>3. Messages(toClient)' = {} /\ Messages(toServer)' = {}
      BY <1>4, <2>2 DEF Messages
    <3>4. server' \in {"none", "negotiating", "startup", "password"} => stage' = "none"
      BY <1>1, <2>4
    <3> QED
      BY <3>2, <3>3, <3>4 DEF StageFits
  <2> QED
    BY <2>3, <2>5
<1>7. pc = "new" => toServer' = <<>> /\ stage = "none"
  BY <1>1, <1>2 DEF Login
<1> QED
  BY <1>1, <1>5, <1>6, <1>7 DEF Login

-----------------------------------------------------------------------------
(* The steps of the client. *)

\* Whatever the server offers, the client has a mechanism, and says of channel
\* binding what the server accepts with it.
LEMMA MechanismAccepted ==
    ASSUME setup \in Setup
    PROVE  LET m == Mechanism(setup.mechanisms)
           IN  Suitable(setup.mechanisms) # {} /\ Accepts(m, Gs2Flag(m))
<1> DEFINE offered == setup.mechanisms
<1>1. offered \in {{Plain}, {Plain, Plus}}
  BY DEF Setup
<1>2. Plain # Plus /\ Strength[Plain] = 2 /\ Strength[Plus] = 3
  BY DEF Plain, Plus, Strength
<1>3. Plain \in Suitable(offered) /\ Suitable(offered) \subseteq {Plain, Plus}
  BY <1>1, <1>2 DEF Suitable
<1>4. Plus \in Suitable(offered) <=> Plus \in offered /\ binding
  BY <1>2 DEF Suitable
<1> HIDE DEF offered
<1>5. \E m \in Suitable(offered) : \A n \in Suitable(offered) : Strength[n] <= Strength[m]
  <2>1. CASE Plus \in Suitable(offered)
    BY <1>2, <1>3, <2>1
  <2>2. CASE Plus \notin Suitable(offered)
    BY <1>2, <1>3, <2>2
  <2> QED
    BY <2>1, <2>2
<1> DEFINE m == Mechanism(offered)
<1>6. m \in Suitable(offered) /\ \A n \in Suitable(offered) : Strength[n] <= Strength[m]
  BY <1>5 DEF Mechanism
<1> HIDE DEF m
<1>7. m \in offered /\ m \in {Plain, Plus} /\ (m = Plain => ~(Plus \in offered /\ binding))
      /\ (m = Plus => binding)
  <2>1. m = Plain => Plus \notin Suitable(offered)
    BY <1>2, <1>6
  <2>2. m \in {Plain, Plus} /\ (m = Plus => Plus \in Suitable(offered))
    BY <1>3, <1>6
  <2> QED
    BY <1>1, <1>2, <1>4, <2>1, <2>2 DEF offered
<1>8. Accepts(m, Gs2Flag(m))
  BY <1>2, <1>7 DEF Accepts, Gs2Flag, offered
<1> QED
  BY <1>3, <1>8 DEF m, offered

LEMMA OnlyMessage ==
    ASSUME NEW m
    PROVE  <<>> \o <<m>> = <<m>> /\ Tail(<<m>>) = <<>>
<1>1. <<>> \o <<m>> = <<m>>
  OBVIOUS
<1>2. Tail(<<m>>) = <<>>
  OBVIOUS
<1> QED
  BY <1>1, <1>2

LEMMA ClientSends ==
    ASSUME NEW m, Send(m), IsSeq(m), IsSeq(toServer)
    PROVE  Messages(toServer') \subseteq Messages(toServer) \cup Messages(m)
BY ConcatSent DEF Send

LEMMA ClientStreams ==
    ASSUME IInv, Streams, Takes, UNCHANGED <<server, setup>>,
           current' = current \/ \A m \in Messages(toClient) : m[1] # "complete",
           \A m \in Messages(toServer') :
               m[1] = "client_first" => m \in Messages(toServer) \/ Accepts(m[2], m[3]),
           pc' = "idle" => toServer' = <<>>,
           pc' = "running" => \A m \in Messages(toServer') : m[1] = "query"
    PROVE  Streams'
<1>1. IsSeq(toClient)
  BY DEF IInv, Kind
<1>2. Messages(toClient') \subseteq Messages(toClient)
  BY <1>1, TailSent DEF Takes
<1>3. EofLast(toClient') /\ ReadyFollows(toClient')
  BY <1>1, TailSent DEF Takes, Streams
<1>4. server # "gone" => NoEof(toClient')
  BY <1>2 DEF Streams, NoEof
<1>5. \A m \in Messages(toClient') : m[1] = "complete" => m[2] = current'
  BY <1>2 DEF Streams
<1>6. \A m \in Messages(toServer') : m[1] = "client_first" => Accepts(m[2], m[3])
  BY DEF Streams
<1>7. setup \in Setup
  BY DEF Streams
<1> QED
  BY <1>3, <1>4, <1>5, <1>6, <1>7 DEF Streams, Accepts, EofLast, ReadyFollows, NoEof, Messages

\* The client leaves.
LEMMA LeaveKeeps ==
    ASSUME IInv, Streams, Takes, UNCHANGED <<server, setup, current>>,
           pc' \in {"failed", "succeeded"},
           toServer' = toServer \/ Close \/ Send(<<<<"eof">>>>)
    PROVE  Streams' /\ Login'
<1>1. <<"terminate">>[1] = "terminate" /\ <<"eof">>[1] = "eof" /\ IsSeq(toServer)
  BY DEF IInv, Kind
<1>2. \A m \in Messages(toServer') : m[1] = "client_first" => m \in Messages(toServer)
  <2>1. CASE Close
    <3> DEFINE t == <<<<"terminate">>, <<"eof">>>>
    <3>1. IsSeq(t) /\ Messages(t) = {<<"terminate">>, <<"eof">>}
      BY <1>1, TwoSent DEF Tokens
    <3>2. Send(t)
      BY <2>1 DEF Close
    <3> HIDE DEF t
    <3> QED
      BY <1>1, <3>1, <3>2, ClientSends
  <2>2. CASE Send(<<<<"eof">>>>)
    <3>1. IsSeq(<<<<"eof">>>>) /\ Messages(<<<<"eof">>>>) = {<<"eof">>}
      BY OneSent
    <3> QED
      BY <1>1, <2>2, <3>1, ClientSends
  <2> QED
    BY <2>1, <2>2
<1>3. Streams'
  BY <1>2, ClientStreams
<1> QED
  BY <1>3, AfterLogin

\* The client takes its turn in the login: a question, and an answer to it.
LEMMA TurnKeeps ==
    ASSUME IInv, Streams, Login, pc \in {"ssl", "login"}, pc' = "login",
           NEW type \in Tokens, Receives(type), Consume,
           NEW m, Send(<<m>>),
           m[1] = "client_first" => Accepts(m[2], m[3]) /\ stage' = "get_client_first",
           m[1] = "client_final" => type = "server_first" /\ stage' = "get_client_final",
           \/ stage' = stage
           \/ type = "sasl" /\ stage' = "get_client_first"
           \/ type = "server_first" /\ stage' = "get_client_final",
           UNCHANGED <<server, setup, current>>
    PROVE  Streams' /\ Login'
<1>1. toClient # <<>> /\ Head(toClient)[1] = type /\ toClient' = Tail(toClient)
  BY DEF Receives, Consume
<1>2. IsSeq(toServer) /\ IsSeq(toClient) /\ IsSeq(<<m>>) /\ Messages(<<m>>) = {m}
  BY OneSent DEF IInv, Kind
<1>3. TakeTurns /\ StageFits
  BY DEF Login
<1>4. Head(toClient) \in Messages(toClient) /\ Messages(toClient') \subseteq Messages(toClient)
  BY <1>1, <1>2, TailSent
<1>5. toServer = <<>>
  BY <1>1, <1>3, <1>4 DEF TakeTurns, NoToken
<1>6. toServer' = <<>> \/ toServer' = <<m>>
  <2>1. <<>> \o <<m>> = <<m>>
    BY OnlyMessage
  <2> QED
    BY <1>5, <2>1 DEF Send
<1>7. Messages(toServer') \subseteq {m}
  BY <1>2, <1>6, NoneSent
<1>8. NoToken(toClient') /\ OneToken(toClient') /\ AtMostOne(toClient', "server_final")
  BY <1>1, <1>2, <1>3, TailSent, TailKeeps DEF TakeTurns, StageFits
<1>9. TakeTurns'
  <2>1. Tail(<<m>>) = <<>>
    BY OnlyMessage
  <2>2. toServer' # <<>> => Tail(toServer') = <<>>
    BY <1>6, <2>1
  <2> QED
    BY <1>8, <2>2 DEF TakeTurns, OneToken, NoToken, Messages
<1>10. StageFits'
  <2>1. server \in {"none", "negotiating", "startup", "password"} => stage' = "none"
    BY <1>1, <1>3, <1>4 DEF StageFits
  <2>2. \A n \in Messages(toClient') : n[1] # "sasl" /\ n[1] # "server_first"
    BY <1>8 DEF NoToken, Tokens
  <2>3. \A n \in Messages(toClient') : n[1] = "server_final" => stage' = "get_client_final" /\ stage' = stage
    BY <1>1, <1>3, <1>4 DEF StageFits
  <2>4. \A n \in Messages(toClient') : n[1] = "server_final" => m[1] # "client_final"
    <3>1. type = "server_first" => stage = "get_client_first"
      BY <1>1, <1>3, <1>4 DEF StageFits
    <3> QED
      BY <2>3, <3>1
  <2>5. \A n \in Messages(toServer') :
            /\ n[1] = "client_first" => stage' = "get_client_first"
            /\ n[1] = "client_final" => stage' = "get_client_final"
    BY <1>7
  <2> QED
    BY <1>7, <1>8, <2>1, <2>2, <2>3, <2>4, <2>5 DEF StageFits, Messages, AtMostOne
<1>11. Streams'
  BY <1>1, <1>7, ClientStreams DEF Takes
<1> QED
  BY <1>9, <1>10, <1>11 DEF Login

LEMMA ConnectGoesOn ==
    ASSUME IInv, Streams, Login, Connect
    PROVE  Streams' /\ Login'
<1> DEFINE m == <<"ssl_request">>
<1>1. m[1] = "ssl_request"
  OBVIOUS
<1>2. pc = "new" /\ pc' = "ssl" /\ server' = "negotiating" /\ toServer' = <<m>>
      /\ UNCHANGED <<stage, current, setup, toClient>>
  BY DEF Connect
<1> HIDE DEF m
<1>3. stage = "none" /\ toClient' = <<>>
  BY <1>2 DEF Login
<1>4. Messages(toServer') = {m} /\ Tail(toServer') = <<>>
  BY <1>2, OneSent, OnlyMessage
<1>5. Messages(toClient') = {} /\ OneToken(toClient') /\ EofLast(toClient') /\ ReadyFollows(toClient')
      /\ AtMostOne(toClient', "server_final")
  BY <1>3, NoneSent, Empty
<1>6. Streams'
  <2>1. setup \in Setup /\ \A n \in Messages(toServer') : n[1] # "client_first"
    BY <1>1, <1>4 DEF Streams
  <2> QED
    BY <1>2, <1>5, <2>1 DEF Streams, Accepts, EofLast, ReadyFollows, NoEof, Messages
<1>7. TakeTurns'
  BY <1>4, <1>5 DEF TakeTurns, OneToken, NoToken, Messages
<1>8. StageFits'
  <2>1. \A n \in Messages(toServer') : n[1] # "client_first" /\ n[1] # "client_final"
    BY <1>1, <1>4
  <2> QED
    BY <1>2, <1>3, <1>5, <2>1 DEF StageFits, AtMostOne, Messages
<1> QED
  BY <1>2, <1>6, <1>7, <1>8 DEF Login

\* The connection is closed, and the client takes that for "N".
LEMMA ClosedKeeps ==
    ASSUME IInv, Streams, Login, Unsecured, Receives("eof"), UNCHANGED toClient
    PROVE  Streams' /\ Login'
<1> DEFINE m == <<"startup">>
<1>1. m[1] = "startup"
  OBVIOUS
<1>2. /\ pc = "ssl" /\ pc' = "login" /\ Send(<<m>>) /\ UNCHANGED <<stage, current, setup, server>>
      /\ toClient # <<>> /\ Head(toClient)[1] = "eof"
  BY DEF Unsecured, StartUp, serverVars, Receives
<1> HIDE DEF m
<1>3. IsSeq(toServer) /\ IsSeq(toClient) /\ IsSeq(<<m>>) /\ Messages(<<m>>) = {m}
  BY OneSent DEF IInv, Kind
<1>4. Messages(toClient) = {Head(toClient)}
  BY <1>2, <1>3, TailSent DEF Streams
<1>5. server = "gone"
  BY <1>2, <1>4 DEF Streams, NoEof
<1>6. Messages(toServer') \subseteq Messages(toServer) \cup {m}
  BY <1>2, <1>3, ClientSends
<1>7. Streams'
  <2>1. \A n \in Messages(toServer') : n[1] = "client_first" => n \in Messages(toServer)
    BY <1>1, <1>6
  <2> QED
    BY <1>2, <2>1, ClientStreams DEF Takes
<1>8. TakeTurns'
  <2>1. NoToken(toClient) /\ OneToken(toClient)
    BY <1>2, <1>4 DEF NoToken, Tokens, Login, TakeTurns
  <2> QED
    BY <1>2, <1>5, <2>1 DEF TakeTurns, OneToken, NoToken, Messages
<1>9. StageFits'
  <2>1. \A n \in Messages(toServer') :
          /\ n[1] = "client_first" => stage = "get_client_first"
          /\ n[1] = "client_final" => stage = "get_client_final"
    BY <1>1, <1>2, <1>6 DEF Login, StageFits
  <2>2. AtMostOne(toClient, "server_final")
    BY <1>2 DEF Login, StageFits
  <2>3. \A n \in Messages(toClient) : n[1] = "eof"
    BY <1>2, <1>4
  <2> QED
    BY <1>2, <1>5, <2>1, <2>2, <2>3 DEF StageFits, AtMostOne, Messages
<1> QED
  BY <1>2, <1>7, <1>8, <1>9 DEF Login

LEMMA StartUpKeeps ==
    ASSUME IInv, Streams, Login, Secured \/ Unsecured
    PROVE  Streams' /\ Login'
<1> DEFINE m == <<"startup">>
<1>1. m[1] = "startup"
  OBVIOUS
<1>2. pc = "ssl" /\ pc' = "login" /\ Send(<<m>>) /\ UNCHANGED <<stage, current, setup, server>>
  BY DEF Secured, Unsecured, StartUp, serverVars
<1> HIDE DEF m
<1>3. CASE Receives("eof") /\ UNCHANGED toClient /\ Unsecured
  BY <1>3, ClosedKeeps
<1>4. CASE Receives("S") /\ Consume
  BY <1>1, <1>2, <1>4, TurnKeeps DEF Tokens
<1>5. CASE Receives("N") /\ Consume
  BY <1>1, <1>2, <1>5, TurnKeeps DEF Tokens
<1> QED
  BY <1>3, <1>4, <1>5 DEF Secured, Unsecured

\* An answer of the client to a question of the login.
LEMMA LoginAnswerKeeps ==
    ASSUME IInv, Streams, Login, LoginPassword \/ LoginSASL \/ LoginSASLContinue
    PROVE  Streams' /\ Login'
<1>1. pc = "login" /\ pc' = "login" /\ UNCHANGED <<server, setup, current>> /\ Consume
  BY DEF LoginPassword, LoginSASL, LoginSASLContinue, LoginStep, serverVars
<1>2. CASE LoginPassword
  <2> DEFINE m == <<"password">>
  <2>1. m[1] = "password"
    OBVIOUS
  <2>2. Receives("password_request") /\ Send(<<m>>) /\ UNCHANGED stage
    BY <1>2 DEF LoginPassword
  <2> HIDE DEF m
  <2> QED
    BY <1>1, <2>1, <2>2, TurnKeeps DEF Tokens
<1>3. CASE LoginSASL
  <2> DEFINE chosen == Mechanism(Head(toClient)[2])
             m == <<"client_first", chosen, Gs2Flag(chosen)>>
  <2>1. m[1] = "client_first" /\ m[2] = chosen /\ m[3] = Gs2Flag(chosen)
    OBVIOUS
  <2>2. Receives("sasl") /\ Send(<<m>>) /\ stage' = "get_client_first"
    BY <1>3 DEF LoginSASL
  <2>3. Head(toClient)[2] = setup.mechanisms
    <3>1. Head(toClient) \in Messages(toClient) /\ Head(toClient)[1] = "sasl"
      BY <2>2, TailSent DEF Receives, IInv, Kind
    <3> QED
      BY <1>1, <3>1 DEF Login, StageFits
  <2>4. Accepts(chosen, Gs2Flag(chosen))
    BY <2>3, MechanismAccepted DEF Streams
  <2>5. Accepts(m[2], m[3])
    BY <2>1, <2>4
  <2> HIDE DEF m
  <2>6. m[1] # "client_final"
    BY <2>1
  <2> QED
    BY <1>1, <2>2, <2>5, <2>6, TurnKeeps DEF Tokens
<1>4. CASE LoginSASLContinue
  <2> DEFINE m == <<"client_final">>
  <2>1. m[1] = "client_final"
    OBVIOUS
  <2>2. Receives("server_first") /\ Send(<<m>>) /\ stage' = "get_client_final"
    BY <1>4 DEF LoginSASLContinue
  <2> HIDE DEF m
  <2> QED
    BY <1>1, <2>1, <2>2, TurnKeeps DEF Tokens
<1> QED
  BY <1>2, <1>3, <1>4

\* The end of SASL, or a message that is no question: the client only reads.
LEMMA LoginReadKeeps ==
    ASSUME IInv, Streams, Login, LoginSASLFinal \/ LoginInfo
    PROVE  Streams' /\ Login'
<1>1. /\ pc = "login" /\ pc' = "login" /\ UNCHANGED <<server, setup, current, toServer>>
      /\ toClient # <<>> /\ toClient' = Tail(toClient)
      /\ \/ /\ Head(toClient)[1] = "server_final"
            /\ stage = "get_client_final" /\ stage' = "set_server_final"
         \/ stage' = stage
  BY DEF LoginSASLFinal, LoginInfo, LoginStep, serverVars, Receives, Consume
<1>2. IsSeq(toClient)
  BY DEF IInv, Kind
<1>3. TakeTurns /\ StageFits
  BY <1>1 DEF Login
<1>4. /\ Head(toClient) \in Messages(toClient) /\ Messages(toClient') \subseteq Messages(toClient)
      /\ OneToken(toClient')
  BY <1>1, <1>2, <1>3, TailSent DEF TakeTurns
<1>5. /\ AtMostOne(toClient', "server_final")
      /\ Head(toClient)[1] = "server_final" => No(toClient', "server_final")
  BY <1>1, <1>2, <1>3, TailKeeps DEF StageFits
<1>6. Streams'
  BY <1>1, ClientStreams DEF Takes
<1>7. TakeTurns'
  <2>1. toServer # <<>> => NoToken(toClient')
    BY <1>3, <1>4 DEF TakeTurns, NoToken
  <2> QED
    BY <1>1, <1>3, <1>4, <2>1 DEF TakeTurns, OneToken, NoToken, Messages
<1>8. StageFits'
  <2>1. CASE stage' = stage
    BY <1>1, <1>3, <1>4, <1>5, <2>1 DEF StageFits, AtMostOne, Messages
  <2>2. CASE /\ Head(toClient)[1] = "server_final"
             /\ stage = "get_client_final" /\ stage' = "set_server_final"
    <3>1. server \notin {"none", "negotiating", "startup", "password"}
      BY <1>3, <2>2 DEF StageFits
    <3>2. \A n \in Messages(toClient') : n[1] \notin {"sasl", "server_first"}
      BY <1>3, <1>4, <2>2 DEF StageFits
    <3>3. \A n \in Messages(toClient') : n[1] # "server_final"
      BY <1>5, <2>2 DEF No, Messages
    <3>4. \A n \in Messages(toServer) : n[1] \notin {"client_first", "client_final"}
      BY <1>3, <1>4, <2>2 DEF StageFits
    <3> QED
      BY <1>1, <1>5, <3>1, <3>2, <3>3, <3>4 DEF StageFits, AtMostOne, Messages
  <2> QED
    BY <1>1, <2>1, <2>2
<1> QED
  BY <1>1, <1>6, <1>7, <1>8 DEF Login

\* ReadyForQuery ends the login, and a run.
LEMMA ReadyKeeps ==
    ASSUME IInv, Streams, Login, LoginReady \/ RunReady
    PROVE  Streams' /\ Login'
<1>1. /\ pc' = "idle" /\ UNCHANGED <<server, setup, current, toServer>>
      /\ toClient # <<>> /\ Head(toClient)[1] = "ready" /\ toClient' = Tail(toClient)
  BY DEF LoginReady, RunReady, serverVars, Receives, Consume
<1>2. IsSeq(toClient) /\ IsSeq(toServer)
  BY DEF IInv, Kind
<1>3. Head(toClient) \in Messages(toClient)
  BY <1>1, <1>2, TailSent
<1>4. toServer = <<>>
  <2>1. CASE LoginReady
    <3>1. TakeTurns
      BY <2>1 DEF LoginReady, Login
    <3> QED
      BY <1>1, <1>3, <3>1 DEF TakeTurns, NoToken, Tokens
  <2>2. CASE RunReady
    <3>1. No(toServer, "query")
      BY <2>2, RunReadyIs
    <3>2. \A m \in Messages(toServer) : m[1] = "query"
      BY <2>2 DEF RunReady, Streams
    <3>3. Messages(toServer) = {}
      BY <3>1, <3>2 DEF No, Messages
    <3> QED
      BY <1>2, <3>3, TailSent
  <2> QED
    BY <2>1, <2>2
<1>5. Streams'
  BY <1>1, <1>4, NoneSent, ClientStreams DEF Takes
<1> QED
  BY <1>1, <1>5, AfterLogin

\* Before a run there is nothing on its way to the server.
LEMMA RunGoesOn ==
    ASSUME IInv, Streams, Login, Run
    PROVE  Streams' /\ Login'
<1> DEFINE m == <<"query", current + 1>>
<1>1. m[1] = "query"
  OBVIOUS
<1>2. pc = "idle" /\ pc' = "running" /\ Send(<<m>>) /\ UNCHANGED <<server, setup, toClient>>
  BY DEF Run, serverVars
<1> HIDE DEF m
<1>3. toServer = <<>>
  BY <1>2 DEF Streams
<1>4. Messages(toServer') \subseteq {m}
  <2>1. IsSeq(toServer) /\ IsSeq(<<m>>) /\ Messages(<<m>>) = {m}
    BY OneSent DEF IInv, Kind
  <2> QED
    BY <1>2, <1>3, <2>1, NoneSent, ClientSends
<1>5. \A n \in Messages(toClient) : n[1] # "complete"
  <2>1. No(toClient, "ready")
    BY <1>2 DEF IInv, Readies, OneReady
  <2> QED
    BY <2>1 DEF Streams, ReadyFollows, No, Messages
<1>6. Streams'
  BY <1>1, <1>2, <1>4, <1>5, ClientStreams DEF Takes
<1> QED
  BY <1>2, <1>6, AfterLogin

LEMMA ClientGoesOn ==
    ASSUME IInv, Streams, Login, ClientNext
    PROVE  Streams' /\ Login'
<1>1. CASE Connect
  BY <1>1, ConnectGoesOn
<1>2. CASE Secured \/ Unsecured
  BY <1>2, StartUpKeeps
<1>3. CASE LoginPassword \/ LoginSASL \/ LoginSASLContinue
  BY <1>3, LoginAnswerKeeps
<1>4. CASE LoginSASLFinal \/ LoginInfo
  BY <1>4, LoginReadKeeps
<1>5. CASE LoginReady \/ RunReady
  BY <1>5, ReadyKeeps
<1>6. CASE Run
  BY <1>6, RunGoesOn
<1>7. CASE RunComplete \/ RunError
  <2>1. pc = "running" /\ pc' = "running" /\ Takes /\ UNCHANGED <<server, setup, current, toServer>>
    BY <1>7 DEF RunComplete, RunError, clientVars, serverVars, Receives, Consume, Takes
  <2>2. \A m \in Messages(toServer) : m[1] = "query"
    BY <2>1 DEF Streams
  <2>3. Streams'
    BY <2>1, <2>2, ClientStreams
  <2> QED
    BY <2>1, <2>3, AfterLogin
<1>8. CASE ConnectFails \/ NegotiationFails \/ LoginRefused \/ RunRefused \/ ReadFails \/ Finish \/ FinishFails
  <2>1. /\ pc' \in {"failed", "succeeded"} /\ Takes /\ UNCHANGED <<server, setup, current>>
        /\ toServer' = toServer \/ Close \/ Send(<<<<"eof">>>>)
    BY <1>8 DEF ConnectFails, NegotiationFails, LoginRefused, RunRefused, ReadFails, Finish,
                FinishFails, Raise, serverVars, Receives, Consume, Takes
  <2> QED
    BY <2>1, LeaveKeeps
<1> QED
  BY <1>1, <1>2, <1>3, <1>4, <1>5, <1>6, <1>7, <1>8 DEF ClientNext

-----------------------------------------------------------------------------
(* The theorems. *)

KeepsStep == IInv /\ Streams /\ Login

LEMMA InitKeepsStep == Init => KeepsStep
<1> SUFFICES ASSUME Init PROVE KeepsStep
  OBVIOUS
<1>1. /\ pc = "new" /\ stage = "none" /\ toServer = <<>> /\ toClient = <<>> /\ setup \in Setup
  BY SetupsAssumption DEF Init
<1>2. Streams
  BY <1>1, NoneSent DEF Streams, NoEof
<1>3. Login
  BY <1>1 DEF Login
<1> QED
  BY <1>2, <1>3, InitIInv DEF KeepsStep

LEMMA NextKeepsStep ==
    ASSUME KeepsStep, [Next]_vars
    PROVE  KeepsStep'
<1> USE DEF KeepsStep
<1>1. IInv'
  BY NextIInv
<1>2. Streams' /\ Login'
  <2>1. CASE UNCHANGED vars
    <3>1. Streams'
      <4>1. /\ Takes /\ UNCHANGED <<pc, server, setup, current, toServer>>
        BY <2>1 DEF vars, Takes
      <4>2. /\ pc = "idle" => toServer = <<>>
            /\ pc = "running" => \A m \in Messages(toServer) : m[1] = "query"
        BY DEF Streams
      <4> QED
        BY <4>1, <4>2, ClientStreams
    <3>2. TakeTurns => TakeTurns'
      BY <2>1 DEF vars, TakeTurns, OneToken, NoToken, Messages
    <3>3. StageFits => StageFits'
      BY <2>1 DEF vars, StageFits, Messages, AtMostOne
    <3>4. Login'
      BY <2>1, <3>2, <3>3 DEF vars, Login
    <3> QED
      BY <3>1, <3>4
  <2>2. CASE ClientNext
    BY <2>2, ClientGoesOn
  <2>3. CASE ServerNext \/ ServerStops
    BY <2>3, HandshakeKeeps, CommandKeeps, EndKeeps DEF ServerNext
  <2>4. CASE Break
    BY <2>4, BreakLoses
  <2> QED
    BY <2>1, <2>2, <2>3, <2>4 DEF Next
<1> QED
  BY <1>1, <1>2

\* Whatever is lost or breaks when, client and server keep step: between two
\* runs (core.py, execute_simple and handle_messages) nothing is on its way
\* that the next one could take for its own, and a run hears of its own
\* command only.
THEOREM SynchronisedHolds == Spec => []Synchronised
<1>1. KeepsStep => Synchronised
  <2> SUFFICES ASSUME KeepsStep PROVE Synchronised
    OBVIOUS
  <2>1. ASSUME pc = "idle" PROVE Answers = {}
    <3>1. No(toClient, "ready")
      BY <2>1 DEF KeepsStep, IInv, Readies, OneReady
    <3>2. No(toClient, "complete")
      BY <3>1 DEF KeepsStep, Streams, ReadyFollows, No
    <3> QED
      BY <3>1, <3>2 DEF Answers, No
  <2>2. ASSUME pc = "idle" PROVE toServer = <<>> /\ server \in {"idle", "gone"}
    <3>1. toServer = <<>>
      BY <2>2 DEF KeepsStep, Streams
    <3>2. server # "executing"
      BY <3>1 DEF KeepsStep, IInv, Queries
    <3> QED
      BY <2>2, <3>1, <3>2 DEF KeepsStep, IInv, Kind, Counts
  <2>3. ASSUME NEW k \in DOMAIN toClient, toClient[k][1] = "complete" PROVE toClient[k][2] = current
    BY <2>3 DEF KeepsStep, Streams, Messages
  <2> QED
    BY <2>1, <2>2, <2>3 DEF Synchronised
<1> QED
  BY <1>1, InitKeepsStep, NextKeepsStep, PTL DEF Spec

\* For every server: the client finds a mechanism, the server accepts it with
\* the flag the client sends, and no SASL message finds the ScramClient in a
\* stage that does not take it (core.py, handle_AUTHENTICATION_REQUEST;
\* scramp, ScramClient).
THEOREM ScramAgreesHolds == Spec => []ScramAgrees
<1>1. KeepsStep => ScramAgrees
  <2> SUFFICES ASSUME KeepsStep PROVE ScramAgrees
    OBVIOUS
  <2>1. ASSUME NEW k \in DOMAIN toServer, toServer[k][1] = "client_first"
        PROVE  Accepts(toServer[k][2], toServer[k][3])
    BY <2>1 DEF KeepsStep, Streams, Messages
  <2>2. ASSUME pc = "login", toClient # <<>>
        PROVE  /\ Head(toClient)[1] = "sasl" => stage = "none" /\ Head(toClient)[2] = setup.mechanisms
               /\ Head(toClient)[1] = "server_first" => stage = "get_client_first"
               /\ Head(toClient)[1] = "server_final" => stage = "get_client_final"
    <3>1. Head(toClient) \in Messages(toClient)
      BY <2>2, TailSent DEF KeepsStep, IInv, Kind
    <3> QED
      BY <2>2, <3>1 DEF KeepsStep, Login, StageFits
  <2>3. Suitable(setup.mechanisms) # {}
    BY MechanismAccepted DEF KeepsStep, Streams
  <2> QED
    BY <2>1, <2>2, <2>3 DEF ScramAgrees, Receives
<1> QED
  BY <1>1, InitKeepsStep, NextKeepsStep, PTL DEF Spec

\* Every variable has its type; with the counters, the lambda runs no command
\* that it does not have (handler.py, the loop over the statements).
THEOREM TypeCorrect == Spec => []TypeOK
<1>1. Init => TypeOK
  <2>1. 0 \in 0..LastCommand
    BY LastCommandAssumption
  <2> QED
    BY <2>1 DEF Init, TypeOK
<1>2. ASSUME IInv, TypeOK, [Next]_vars PROVE TypeOK'
  <2> USE DEF TypeOK
  <2>1. pc' \in {"new", "ssl", "login", "idle", "running", "succeeded", "failed"}
        /\ server' \in {"none", "negotiating", "startup", "password", "sasl_first", "sasl_final",
                        "idle", "executing", "gone"}
    BY <1>2, NextIInv DEF IInv, Kind, BeforeReady
  <2>2. CASE UNCHANGED vars
    BY <1>2, <2>1, <2>2 DEF vars
  <2>3. CASE ServerNext \/ ServerStops \/ Break
    <3>1. UNCHANGED <<stage, binding, error, current, returned, setup>>
          /\ (UNCHANGED link \/ link' = "broken")
      <4> USE DEF Reply, Refuse, LogIn, clientVars, serverVars
      <4>1. CASE ServerSSL \/ ServerStartup \/ ServerRefuses \/ ServerPassword
        BY <4>1 DEF ServerSSL, ServerStartup, ServerRefuses, ServerPassword
      <4>2. CASE ServerFirst \/ ServerFinal \/ ServerQuery \/ ServerCommits
        BY <4>2 DEF ServerFirst, ServerFinal, ServerQuery, ServerCommits
      <4>3. CASE ServerRefusesCommand \/ ServerEnds \/ ServerNotices
        BY <4>3 DEF ServerRefusesCommand, ServerEnds, ServerNotices
      <4>4. CASE ServerStops \/ Break
        BY <4>4 DEF ServerStops, Break
      <4> QED
        BY <2>3, <4>1, <4>2, <4>3, <4>4 DEF ServerNext
    <3> QED
      BY <1>2, <2>1, <3>1
  <2>4. CASE ClientNext
    <3> USE DEF Raise, Close, Send, StartUp, LoginStep, clientVars, serverVars
    <3>1. CASE Run
      <4>1. current \in 0..LastCommand /\ current < LastCommand
        BY <1>2, <3>1 DEF Run
      <4>2. current + 1 \in 0..LastCommand
        BY <4>1, LastCommandAssumption
      <4> QED
        BY <1>2, <2>1, <3>1, <4>2 DEF Run
    <3>2. CASE RunReady
      <4>1. current = returned + 1
        BY <1>2, <3>2, RunReadyIs
      <4> QED
        BY <1>2, <2>1, <3>2, <4>1, LastCommandAssumption DEF RunReady
    <3>3. CASE ConnectFails \/ Connect \/ Secured \/ Unsecured \/ NegotiationFails
      BY <1>2, <2>1, <3>3 DEF ConnectFails, Connect, Secured, Unsecured, NegotiationFails
    <3>4. CASE LoginPassword \/ LoginSASL \/ LoginSASLContinue \/ LoginSASLFinal \/ LoginInfo
               \/ LoginReady \/ LoginRefused
      BY <1>2, <2>1, <3>4 DEF LoginPassword, LoginSASL, LoginSASLContinue, LoginSASLFinal, LoginInfo,
                              LoginReady, LoginRefused
    <3>5. CASE RunComplete \/ RunError \/ RunRefused \/ ReadFails \/ Finish \/ FinishFails
      BY <1>2, <2>1, <3>5 DEF RunComplete, RunError, RunRefused, ReadFails, Finish, FinishFails
    <3> QED
      BY <2>4, <3>1, <3>2, <3>3, <3>4, <3>5 DEF ClientNext
  <2> QED
    BY <1>2, <2>2, <2>3, <2>4 DEF Next
<1> QED
  BY <1>1, <1>2, InitIInv, NextIInv, PTL DEF Spec


-----------------------------------------------------------------------------
(***************************************************************************)
(* Every step counts down.                                                 *)
(***************************************************************************)
LEMMA ServerWeighs ==
    /\ ServerLeft["negotiating"] = 60 /\ ServerLeft["startup"] = 50
    /\ ServerLeft["password"] = 40 /\ ServerLeft["sasl_first"] = 40 /\ ServerLeft["sasl_final"] = 30
    /\ ServerLeft["idle"] = 20 /\ ServerLeft["executing"] = 19
    /\ ServerLeft["none"] = 0 /\ ServerLeft["gone"] = 0
BY DEF ServerLeft

LEMMA ClientWeighs ==
    /\ ClientLeft["new"] = 80 /\ ClientLeft["ssl"] = 10
    /\ ClientLeft["login"] = 5 /\ ClientLeft["idle"] = 5 /\ ClientLeft["running"] = 5
    /\ ClientLeft["succeeded"] = 0 /\ ClientLeft["failed"] = 0
BY DEF ClientLeft

QueryLeft(s) == IF No(s, "query") THEN 0 ELSE 10
LinkLeft(state) == IF state = "up" THEN 1 ELSE 0

\* All but the commands that are still to run.
Rest == ClientLeft[pc] + ServerLeft[server] + LinkLeft(link) + QueryLeft(toServer)
        + Len(toServer) + 2 * Len(toClient)

LEMMA Weights ==
    ASSUME IInv
    PROVE  /\ LastCommand \in Int /\ current \in Int
           /\ ClientLeft[pc] \in Nat /\ ServerLeft[server] \in Nat
           /\ LinkLeft(link) \in Nat /\ QueryLeft(toServer) \in Nat
           /\ Len(toServer) \in Nat /\ Len(toClient) \in Nat
<1>1. ClientLeft[pc] \in Nat
  BY ClientWeighs DEF IInv, Kind
<1>2. ServerLeft[server] \in Nat
  <2>1. server \in {"none", "negotiating", "startup", "password", "sasl_first", "sasl_final",
                   "idle", "executing", "gone"}
    BY DEF IInv, Kind, BeforeReady
  <2> QED
    BY <2>1, ServerWeighs
<1>3. LinkLeft(link) \in Nat /\ QueryLeft(toServer) \in Nat
  BY DEF LinkLeft, QueryLeft
<1>4. Len(toServer) \in Nat /\ Len(toClient) \in Nat /\ current \in Nat
  BY SeqIs DEF IInv, Kind
<1> QED
  BY <1>1, <1>2, <1>3, <1>4, LastCommandAssumption

LEMMA RestIs == IInv => Rest \in Nat /\ Left = 20 * (LastCommand - current) + Rest
<1> SUFFICES ASSUME IInv PROVE Rest \in Nat /\ Left = 20 * (LastCommand - current) + Rest
  OBVIOUS
<1>1. (\E k \in DOMAIN toServer : toServer[k][1] = "query") <=> ~No(toServer, "query")
  BY DEF No
<1>2. Left = 20 * (LastCommand - current) + ClientLeft[pc] + ServerLeft[server] + LinkLeft(link)
             + QueryLeft(toServer) + Len(toServer) + 2 * Len(toClient)
  BY <1>1 DEF Left, LinkLeft, QueryLeft
<1>3. /\ LastCommand \in Int /\ current \in Int
      /\ ClientLeft[pc] \in Int /\ ServerLeft[server] \in Int
      /\ LinkLeft(link) \in Int /\ QueryLeft(toServer) \in Int
      /\ Len(toServer) \in Int /\ Len(toClient) \in Int
  BY Weights
<1>4. Left = 20 * (LastCommand - current) + Rest
  BY <1>2, <1>3 DEF Rest
<1>5. Rest \in Nat
  <2>1. /\ ClientLeft[pc] \in Nat /\ ServerLeft[server] \in Nat
        /\ LinkLeft(link) \in Nat /\ QueryLeft(toServer) \in Nat
        /\ Len(toServer) \in Nat /\ Len(toClient) \in Nat
    BY Weights
  <2> QED
    BY <2>1, SMTT(30) DEF Rest
<1> QED
  BY <1>4, <1>5

LEMMA RestBecomes == (IInv => Rest \in Nat /\ Left = 20 * (LastCommand - current) + Rest)'
BY RestIs, PTL

\* A step that runs no command.
LEMMA LessLeft ==
    ASSUME IInv, IInv', UNCHANGED current, Rest' < Rest
    PROVE  Left' < Left
<1>1. Rest \in Nat /\ Left = 20 * (LastCommand - current) + Rest
  BY RestIs
<1>2. Rest' \in Nat /\ Left' = 20 * (LastCommand - current) + Rest'
  BY RestBecomes
<1>3. PICK a \in Int : a = 20 * (LastCommand - current)
  BY Weights
<1>4. Left = a + Rest /\ Left' = a + Rest'
  BY <1>1, <1>2, <1>3
<1>5. \A x, y \in Nat : x < y => a + x < a + y
  BY <1>3
<1> QED
  BY <1>1, <1>2, <1>4, <1>5

LEMMA WeightsBecome ==
    ASSUME IInv'
    PROVE  /\ ClientLeft[pc'] \in Nat /\ ServerLeft[server'] \in Nat
           /\ LinkLeft(link') \in Nat /\ QueryLeft(toServer') \in Nat
           /\ Len(toServer') \in Nat /\ Len(toClient') \in Nat
           /\ Rest' = ClientLeft[pc'] + ServerLeft[server'] + LinkLeft(link') + QueryLeft(toServer')
                      + Len(toServer') + 2 * Len(toClient')
<1>1. ClientLeft[pc'] \in Nat
  BY ClientWeighs DEF IInv, Kind
<1>2. ServerLeft[server'] \in Nat
  <2>1. server' \in {"none", "negotiating", "startup", "password", "sasl_first", "sasl_final",
                     "idle", "executing", "gone"}
    BY DEF IInv, Kind, BeforeReady
  <2> QED
    BY <2>1, ServerWeighs
<1>3. LinkLeft(link') \in Nat /\ QueryLeft(toServer') \in Nat
  BY DEF LinkLeft, QueryLeft
<1>4. Len(toServer') \in Nat /\ Len(toClient') \in Nat
  <2>1. IsSeq(toServer') /\ IsSeq(toClient')
    BY DEF IInv, Kind, IsSeq
  <2> QED
    BY <2>1, SeqIs
<1> QED
  BY <1>1, <1>2, <1>3, <1>4 DEF Rest, LinkLeft, QueryLeft, No

LEMMA Sends ==
    ASSUME IInv, NEW m, Send(m), IsSeq(m), No(m, "query")
    PROVE  /\ Len(toServer') <= Len(toServer) + Len(m) /\ QueryLeft(toServer') <= QueryLeft(toServer)
           /\ link' = link
<1>1. IsSeq(toServer)
  BY DEF IInv, Kind
<1>2. Len(toServer) \in Nat /\ Len(m) \in Nat
  BY <1>1, SeqIs
<1> SUFFICES Len(toServer') <= Len(toServer) + Len(m) /\ QueryLeft(toServer') <= QueryLeft(toServer)
  BY DEF Send
<1>3. CASE toServer' = toServer
  <2>1. QueryLeft(toServer') = QueryLeft(toServer) /\ QueryLeft(toServer) \in Nat
    BY <1>3 DEF QueryLeft
  <2>2. Len(toServer') = Len(toServer)
    BY <1>3
  <2> QED
    BY <1>2, <2>1, <2>2
<1>4. CASE toServer' = toServer \o m
  <2>1. Len(toServer') = Len(toServer) + Len(m) /\ (No(toServer, "query") => No(toServer', "query"))
    BY <1>1, <1>4, ConcatOf, ConcatKeeps
  <2> QED
    BY <1>2, <2>1 DEF Send, QueryLeft
<1> QED
  BY <1>3, <1>4 DEF Send

LEMMA Consumes ==
    ASSUME IInv, toClient # <<>>, Consume
    PROVE  Len(toClient') = Len(toClient) - 1
BY TailOf DEF Consume, IInv, Kind

LEMMA Adds ==
    ASSUME NEW c \in Nat, NEW s \in Nat, NEW l \in Nat, NEW q \in Nat, NEW x \in Nat, NEW y \in Nat,
           NEW c1 \in Nat, NEW q1 \in Nat, NEW x1 \in Nat, NEW y1 \in Nat,
           NEW n \in Nat, x1 <= x + n, q1 <= q, NEW d \in {0, 1}, y1 = y - d, c1 + n < c + 2 * d
    PROVE  c1 + s + l + q1 + x1 + 2 * y1 < c + s + l + q + x + 2 * y
OBVIOUS

\* A step of the client: n messages more to the server, d less to the client.
LEMMA ClientLess ==
    ASSUME IInv, IInv', UNCHANGED <<server, link, current>>,
           NEW n \in Nat, Len(toServer') <= Len(toServer) + n,
           QueryLeft(toServer') <= QueryLeft(toServer),
           NEW d \in {0, 1}, Len(toClient') = Len(toClient) - d,
           ClientLeft[pc'] + n < ClientLeft[pc] + 2 * d
    PROVE  Left' < Left
<1>1. Rest' < Rest
  <2>1. ServerLeft[server'] = ServerLeft[server] /\ LinkLeft(link') = LinkLeft(link)
    BY DEF LinkLeft
  <2>2. /\ ClientLeft[pc] \in Nat /\ ServerLeft[server] \in Nat
        /\ LinkLeft(link) \in Nat /\ QueryLeft(toServer) \in Nat
        /\ Len(toServer) \in Nat /\ Len(toClient) \in Nat
    BY Weights
  <2>3. /\ ClientLeft[pc'] \in Nat /\ QueryLeft(toServer') \in Nat
        /\ Len(toServer') \in Nat /\ Len(toClient') \in Nat
    BY WeightsBecome
  <2>4. ClientLeft[pc'] + ServerLeft[server] + LinkLeft(link) + QueryLeft(toServer') + Len(toServer')
          + 2 * Len(toClient')
        < ClientLeft[pc] + ServerLeft[server] + LinkLeft(link) + QueryLeft(toServer) + Len(toServer)
          + 2 * Len(toClient)
    <3> DEFINE c == ClientLeft[pc]
               v == ServerLeft[server]
               l == LinkLeft(link)
               q == QueryLeft(toServer)
               x == Len(toServer)
               y == Len(toClient)
               c1 == ClientLeft[pc']
               q1 == QueryLeft(toServer')
               x1 == Len(toServer')
               y1 == Len(toClient')
    <3>1. /\ c \in Nat /\ v \in Nat /\ l \in Nat /\ q \in Nat /\ x \in Nat /\ y \in Nat
          /\ c1 \in Nat /\ q1 \in Nat /\ x1 \in Nat /\ y1 \in Nat
          /\ x1 <= x + n /\ q1 <= q /\ y1 = y - d /\ c1 + n < c + 2 * d
      BY <2>2, <2>3
    <3> HIDE DEF c, v, l, q, x, y, c1, q1, x1, y1
    <3>2. c1 + v + l + q1 + x1 + 2 * y1 < c + v + l + q + x + 2 * y
      BY <3>1, Adds
    <3> QED
      BY <3>2 DEF c, v, l, q, x, y, c1, q1, x1, y1
  <2>5. Rest = ClientLeft[pc] + ServerLeft[server] + LinkLeft(link) + QueryLeft(toServer) + Len(toServer)
               + 2 * Len(toClient)
    BY DEF Rest
  <2>6. Rest' = ClientLeft[pc'] + ServerLeft[server] + LinkLeft(link) + QueryLeft(toServer')
                + Len(toServer') + 2 * Len(toClient')
    BY <2>1, WeightsBecome
  <2> QED
    BY <2>4, <2>5, <2>6
<1> QED
  BY <1>1, LessLeft

LEMMA Sizes ==
    /\ IsSeq(<<>>) /\ No(<<>>, "query") /\ Len(<<>>) = 0
    /\ \A m : IsSeq(<<m>>) /\ Len(<<m>>) = 1 /\ (m[1] # "query" => No(<<m>>, "query"))
    /\ \A m, n : /\ IsSeq(<<m, n>>) /\ Len(<<m, n>>) = 2
                 /\ m[1] # "query" /\ n[1] # "query" => No(<<m, n>>, "query")
<1>1. IsSeq(<<>>) /\ No(<<>>, "query") /\ Len(<<>>) = 0
  BY Empty
<1>2. ASSUME NEW m PROVE IsSeq(<<m>>) /\ Len(<<m>>) = 1 /\ (m[1] # "query" => No(<<m>>, "query"))
  BY Single
<1>3. ASSUME NEW m, NEW n
      PROVE  /\ IsSeq(<<m, n>>) /\ Len(<<m, n>>) = 2
             /\ m[1] # "query" /\ n[1] # "query" => No(<<m, n>>, "query")
  BY Pair
<1> QED
  BY <1>1, <1>2, <1>3

\* The client sends one message that is no command, as it reads one or goes on.
LEMMA SendsOne ==
    ASSUME IInv, IInv', UNCHANGED <<server, current>>,
           NEW m, m[1] # "query", Send(<<m>>),
           NEW d \in {0, 1}, d = 0 => toClient' = toClient, d = 1 => toClient # <<>> /\ Consume,
           ClientLeft[pc'] + 1 < ClientLeft[pc] + 2 * d
    PROVE  Left' < Left
<1>1. IsSeq(<<m>>) /\ Len(<<m>>) = 1 /\ No(<<m>>, "query")
  BY Sizes
<1>2. Len(toServer') <= Len(toServer) + 1 /\ QueryLeft(toServer') <= QueryLeft(toServer) /\ link' = link
  BY <1>1, Sends
<1>3. Len(toClient') = Len(toClient) - d
  <2>1. Len(toClient) \in Nat
    BY Weights
  <2> QED
    BY <2>1, Consumes
<1> QED
  BY <1>2, <1>3, ClientLess

\* The client closes the connection and is done.
LEMMA ClosesLess ==
    ASSUME IInv, IInv', UNCHANGED <<server, current>>, Close,
           toClient' = toClient \/ (toClient # <<>> /\ Consume),
           pc \in {"login", "idle", "running"}, pc' \in {"succeeded", "failed"}
    PROVE  Left' < Left
<1> DEFINE m == <<<<"terminate">>, <<"eof">>>>
<1>1. IsSeq(m) /\ Len(m) = 2 /\ No(m, "query")
  BY Sizes
<1>2. Send(m)
  BY DEF Close
<1> HIDE DEF m
<1>3. Len(toServer') <= Len(toServer) + 2 /\ QueryLeft(toServer') <= QueryLeft(toServer) /\ link' = link
  BY <1>1, <1>2, Sends
<1>4. PICK d \in {0, 1} : Len(toClient') = Len(toClient) - d
  <2>1. Len(toClient) \in Nat
    BY Weights
  <2> QED
    BY <2>1, Consumes
<1>5. ClientLeft[pc'] + 2 < ClientLeft[pc] + 2 * d
  BY ClientWeighs
<1> QED
  BY <1>3, <1>4, <1>5, ClientLess

\* The client only reads.
LEMMA ReadsLess ==
    ASSUME IInv, IInv', UNCHANGED <<server, current, link, toServer>>, toClient # <<>>, Consume,
           ClientLeft[pc'] = ClientLeft[pc]
    PROVE  Left' < Left
<1>1. Len(toClient') = Len(toClient) - 1
  BY Consumes
<1>2. Len(toServer) \in Nat /\ QueryLeft(toServer) \in Nat /\ ClientLeft[pc] \in Nat
  BY Weights
<1>3. Len(toServer') <= Len(toServer) + 0 /\ QueryLeft(toServer') <= QueryLeft(toServer)
  <2>1. QueryLeft(toServer') = QueryLeft(toServer)
    BY DEF QueryLeft
  <2> QED
    BY <1>2, <2>1
<1>4. ClientLeft[pc'] + 0 < ClientLeft[pc] + 2 * 1
  BY <1>2
<1> QED
  BY <1>1, <1>3, <1>4, ClientLess

LEMMA ConnectLess ==
    ASSUME IInv, IInv', ConnectFails \/ Connect
    PROVE  Left' < Left
<1>1. pc = "new" /\ UNCHANGED <<current, toClient>> /\ server = "none"
  BY DEF ConnectFails, Connect, IInv, Counts
<1>2. CASE ConnectFails
  <2>1. pc' = "failed" /\ UNCHANGED <<server, link, current, toServer, toClient>>
    BY <1>2 DEF ConnectFails, serverVars
  <2>2. Len(toServer) \in Nat /\ Len(toClient) \in Nat /\ QueryLeft(toServer) \in Nat
    BY Weights
  <2>3. Len(toServer') <= Len(toServer) + 0 /\ Len(toClient') = Len(toClient) - 0
        /\ QueryLeft(toServer') <= QueryLeft(toServer)
    BY <2>1, <2>2 DEF QueryLeft
  <2>4. ClientLeft[pc'] + 0 < ClientLeft[pc] + 2 * 0
    BY <1>1, <2>1, ClientWeighs
  <2> QED
    BY <2>1, <2>3, <2>4, ClientLess
<1>3. CASE Connect
  <2>1. pc' = "ssl" /\ server' = "negotiating" /\ toServer' = <<<<"ssl_request">>>>
    BY <1>3 DEF Connect
  <2>2. Len(toServer') = 1 /\ QueryLeft(toServer') = 0
    <3>1. <<"ssl_request">>[1] # "query"
      OBVIOUS
    <3>2. Len(<<<<"ssl_request">>>>) = 1 /\ No(<<<<"ssl_request">>>>, "query")
      BY <3>1, Sizes
    <3> QED
      BY <2>1, <3>2 DEF QueryLeft
  <2>3. LinkLeft(link') \in {0, 1} /\ Len(toClient') = Len(toClient)
    BY <1>1 DEF LinkLeft
  <2>4. ClientLeft[pc] = 80 /\ ServerLeft[server] = 0 /\ ClientLeft[pc'] = 10 /\ ServerLeft[server'] = 60
    BY <1>1, <2>1, ClientWeighs, ServerWeighs
  <2>5. /\ LinkLeft(link) \in Nat /\ QueryLeft(toServer) \in Nat
        /\ Len(toServer) \in Nat /\ Len(toClient) \in Nat
    BY Weights
  <2>6. Rest = 80 + 0 + LinkLeft(link) + QueryLeft(toServer) + Len(toServer) + 2 * Len(toClient)
    BY <2>4 DEF Rest
  <2>7. Rest' = 10 + 60 + LinkLeft(link') + 0 + 1 + 2 * Len(toClient)
    BY <2>2, <2>3, <2>4, WeightsBecome
  <2>8. Rest' < Rest
    BY <2>3, <2>5, <2>6, <2>7
  <2> QED
    BY <1>1, <2>8, LessLeft
<1> QED
  BY <1>2, <1>3

\* A command weighs more than its message.
LEMMA RunLess ==
    ASSUME IInv, IInv', Run
    PROVE  Left' < Left
<1> DEFINE m == <<"query", current + 1>>
<1>1. /\ pc = "idle" /\ pc' = "running" /\ current' = current + 1 /\ Send(<<m>>)
      /\ UNCHANGED <<server, toClient>>
  BY DEF Run, serverVars
<1> HIDE DEF m
<1>2. Len(toServer') <= Len(toServer) + 1
  <2>1. IsSeq(toServer)
    BY DEF IInv, Kind
  <2>2. IsSeq(<<m>>) /\ Len(<<m>>) = 1
    BY Sizes
  <2>3. Len(toServer) \in Nat
    BY Weights
  <2>4. Len(toServer \o <<m>>) = Len(toServer) + 1
    BY <2>1, <2>2, ConcatOf
  <2>5. toServer' = toServer \/ toServer' = toServer \o <<m>>
    BY <1>1 DEF Send
  <2> QED
    BY <2>3, <2>4, <2>5
<1>3. QueryLeft(toServer') <= 10 /\ QueryLeft(toServer') \in Nat
  BY DEF QueryLeft
<1>4. LinkLeft(link') = LinkLeft(link)
  BY <1>1 DEF Send, LinkLeft
<1>5. ClientLeft[pc] = 5 /\ ClientLeft[pc'] = 5
  BY <1>1, ClientWeighs
<1>6. /\ ServerLeft[server] \in Nat /\ LinkLeft(link) \in Nat /\ QueryLeft(toServer) \in Nat
      /\ Len(toServer) \in Nat /\ Len(toServer') \in Nat /\ Len(toClient) \in Nat
  BY Weights, WeightsBecome
<1>7. Rest = 5 + ServerLeft[server] + LinkLeft(link) + QueryLeft(toServer) + Len(toServer) + 2 * Len(toClient)
  BY <1>5 DEF Rest
<1>8. Rest' = 5 + ServerLeft[server] + LinkLeft(link) + QueryLeft(toServer') + Len(toServer') + 2 * Len(toClient)
  BY <1>1, <1>4, <1>5, WeightsBecome
<1>9. Rest \in Nat /\ Rest' \in Nat /\ Rest' < Rest + 20
  <2>1. \A s, l, q, q1, x, x1, y \in Nat :
            q1 <= 10 /\ x1 <= x + 1 => 5 + s + l + q1 + x1 + 2 * y < (5 + s + l + q + x + 2 * y) + 20
    OBVIOUS
  <2>2. 5 + ServerLeft[server] + LinkLeft(link) + QueryLeft(toServer') + Len(toServer') + 2 * Len(toClient)
        < (5 + ServerLeft[server] + LinkLeft(link) + QueryLeft(toServer) + Len(toServer)
             + 2 * Len(toClient)) + 20
    BY <1>2, <1>3, <1>6, <2>1
  <2>3. Rest' < Rest + 20
    BY <1>7, <1>8, <2>2
  <2> QED
    BY <2>3, RestIs, RestBecomes
<1>10. LastCommand \in Int /\ current \in Int
  BY Weights
<1>11. 20 * (LastCommand - current') = 20 * (LastCommand - current) - 20
  BY <1>1, <1>10
<1> QED
  <2>1. PICK a \in Int : a = 20 * (LastCommand - current)
    BY <1>10
  <2>2. Left = a + Rest
    BY <2>1, RestIs
  <2>3. Left' = (a - 20) + Rest'
    BY <1>11, <2>1, RestBecomes
  <2>4. \A x, y \in Nat : y < x + 20 => (a - 20) + y < a + x
    BY <2>1
  <2> QED
    BY <1>9, <2>2, <2>3, <2>4

LEMMA ClientCountsDown ==
    ASSUME IInv, IInv', ClientNext
    PROVE  Left' < Left
<1> USE DEF serverVars
<1>1. CASE ConnectFails \/ Connect
  BY <1>1, ConnectLess
<1>2. CASE Run
  BY <1>2, RunLess
<1>3. CASE Secured \/ Unsecured
  <2> DEFINE m == <<"startup">>
  <2>1. m[1] # "query"
    OBVIOUS
  <2>2. /\ pc = "ssl" /\ pc' = "login" /\ Send(<<m>>) /\ UNCHANGED <<server, current>>
        /\ toClient' = toClient \/ (toClient # <<>> /\ Consume)
    BY <1>3 DEF Secured, Unsecured, StartUp, Receives
  <2> HIDE DEF m
  <2>3. ClientLeft[pc'] + 1 < ClientLeft[pc] + 2 * 0 /\ ClientLeft[pc'] + 1 < ClientLeft[pc] + 2 * 1
    BY <2>2, ClientWeighs
  <2>4. CASE toClient' = toClient
    BY <2>1, <2>2, <2>3, <2>4, SendsOne
  <2>5. CASE toClient # <<>> /\ Consume
    BY <2>1, <2>2, <2>3, <2>5, SendsOne
  <2> QED
    BY <2>2, <2>4, <2>5
<1>4. CASE NegotiationFails
  <2> DEFINE m == <<"eof">>
  <2>1. m[1] # "query"
    OBVIOUS
  <2>2. pc = "ssl" /\ pc' = "failed" /\ Send(<<m>>) /\ UNCHANGED <<server, current, toClient>>
    BY <1>4 DEF NegotiationFails
  <2> HIDE DEF m
  <2>3. ClientLeft[pc'] + 1 < ClientLeft[pc] + 2 * 0
    BY <2>2, ClientWeighs
  <2> QED
    BY <2>1, <2>2, <2>3, SendsOne
<1>5. CASE LoginPassword \/ LoginSASL \/ LoginSASLContinue
  <2>1. PICK m : m[1] # "query" /\ Send(<<m>>)
    <3>1. CASE LoginPassword
      <4>1. Send(<<<<"password">>>>) /\ <<"password">>[1] # "query"
        BY <3>1 DEF LoginPassword
      <4> QED
        BY <4>1
    <3>2. CASE LoginSASL
      <4> DEFINE c == Mechanism(Head(toClient)[2])
      <4>1. Send(<<<<"client_first", c, Gs2Flag(c)>>>>) /\ <<"client_first", c, Gs2Flag(c)>>[1] # "query"
        BY <3>2 DEF LoginSASL
      <4> QED
        BY <4>1
    <3>3. CASE LoginSASLContinue
      <4>1. Send(<<<<"client_final">>>>) /\ <<"client_final">>[1] # "query"
        BY <3>3 DEF LoginSASLContinue
      <4> QED
        BY <4>1
    <3> QED
      BY <1>5, <3>1, <3>2, <3>3
  <2>2. pc = "login" /\ pc' = "login" /\ UNCHANGED <<server, current>> /\ toClient # <<>> /\ Consume
    BY <1>5 DEF LoginPassword, LoginSASL, LoginSASLContinue, LoginStep, Receives
  <2>3. ClientLeft[pc'] + 1 < ClientLeft[pc] + 2 * 1
    BY <2>2, ClientWeighs
  <2> QED
    BY <2>1, <2>2, <2>3, SendsOne
<1>6. CASE LoginSASLFinal \/ LoginInfo \/ LoginReady \/ RunComplete \/ RunError \/ RunReady
  <2>1. /\ UNCHANGED <<server, current, link, toServer>> /\ toClient # <<>> /\ Consume
        /\ pc \in {"login", "idle", "running"} /\ pc' \in {"login", "idle", "running"}
    BY <1>6 DEF LoginSASLFinal, LoginInfo, LoginStep, LoginReady, RunComplete, RunError, RunReady,
                Receives, clientVars
  <2>2. ClientLeft[pc'] = ClientLeft[pc]
    BY <2>1, ClientWeighs
  <2> QED
    BY <2>1, <2>2, ReadsLess
<1>7. CASE LoginRefused \/ RunRefused \/ ReadFails \/ Finish \/ FinishFails
  <2>1. /\ UNCHANGED <<server, current>> /\ Close
        /\ toClient' = toClient \/ (toClient # <<>> /\ Consume)
        /\ pc \in {"login", "idle", "running"} /\ pc' \in {"succeeded", "failed"}
    BY <1>7 DEF LoginRefused, RunRefused, ReadFails, Finish, FinishFails, Raise, Receives
  <2> QED
    BY <2>1, ClosesLess
<1> QED
  BY <1>1, <1>2, <1>3, <1>4, <1>5, <1>6, <1>7 DEF ClientNext

\* A step of the server or of the network: at most n messages more to the client.
LEMMA ServerLess ==
    ASSUME IInv, IInv', UNCHANGED <<pc, current>>,
           NEW n \in Nat, Len(toClient') <= Len(toClient) + n,
           ServerLeft[server'] + LinkLeft(link') + QueryLeft(toServer') + Len(toServer') + 2 * n
             < ServerLeft[server] + LinkLeft(link) + QueryLeft(toServer) + Len(toServer)
    PROVE  Left' < Left
<1>1. /\ ClientLeft[pc] \in Nat /\ ServerLeft[server] \in Nat
      /\ LinkLeft(link) \in Nat /\ QueryLeft(toServer) \in Nat
      /\ Len(toServer) \in Nat /\ Len(toClient) \in Nat
  BY Weights
<1>2. /\ ServerLeft[server'] \in Nat /\ LinkLeft(link') \in Nat /\ QueryLeft(toServer') \in Nat
      /\ Len(toServer') \in Nat /\ Len(toClient') \in Nat
  BY WeightsBecome
<1>3. \A c, s, l, q, x, y, s1, l1, q1, x1, y1 \in Nat :
          y1 <= y + n /\ s1 + l1 + q1 + x1 + 2 * n < s + l + q + x
          => c + s1 + l1 + q1 + x1 + 2 * y1 < c + s + l + q + x + 2 * y
  OBVIOUS
<1>4. ClientLeft[pc] + ServerLeft[server'] + LinkLeft(link') + QueryLeft(toServer') + Len(toServer')
        + 2 * Len(toClient')
      < ClientLeft[pc] + ServerLeft[server] + LinkLeft(link) + QueryLeft(toServer) + Len(toServer)
        + 2 * Len(toClient)
  BY <1>1, <1>2, <1>3
<1>5. Rest = ClientLeft[pc] + ServerLeft[server] + LinkLeft(link) + QueryLeft(toServer) + Len(toServer)
             + 2 * Len(toClient)
  BY DEF Rest
<1>6. Rest' = ClientLeft[pc] + ServerLeft[server'] + LinkLeft(link') + QueryLeft(toServer')
              + Len(toServer') + 2 * Len(toClient')
  BY WeightsBecome
<1>7. Rest' < Rest
  BY <1>4, <1>5, <1>6
<1> QED
  BY <1>7, LessLeft

\* The client is sent t, or nothing.
LEMMA Arrives ==
    ASSUME IInv, NEW t, IsSeq(t), toClient' = toClient \/ toClient' = toClient \o t
    PROVE  Len(t) \in Nat /\ Len(toClient') <= Len(toClient) + Len(t)
<1>1. IsSeq(toClient) /\ Len(toClient) \in Nat /\ Len(t) \in Nat
  BY SeqIs DEF IInv, Kind
<1>2. Len(toClient \o t) = Len(toClient) + Len(t)
  BY <1>1, ConcatOf
<1>3. CASE toClient' = toClient
  BY <1>1, <1>3
<1>4. CASE toClient' = toClient \o t
  BY <1>1, <1>2, <1>4
<1> QED
  BY <1>1, <1>3, <1>4

LEMMA ReplyLess ==
    ASSUME IInv, IInv', NEW state, NEW t, Reply(state, t), IsSeq(t), toServer # <<>>,
           ServerLeft[state] + 2 * Len(t) <= ServerLeft[server]
    PROVE  Left' < Left
<1>1. /\ UNCHANGED <<pc, current, link>> /\ server' = state /\ toServer' = Tail(toServer)
      /\ toClient' = toClient \/ toClient' = toClient \o t
  BY DEF Reply, clientVars
<1>2. Len(t) \in Nat /\ Len(toClient') <= Len(toClient) + Len(t)
  BY <1>1, Arrives
<1>3. Len(toServer') = Len(toServer) - 1 /\ (No(toServer, "query") => No(toServer', "query"))
  <2>1. IsSeq(toServer)
    BY DEF IInv, Kind
  <2> QED
    BY <1>1, <2>1, TailOf, TailKeeps
<1>4. /\ ServerLeft[server] \in Nat /\ LinkLeft(link) \in Nat /\ QueryLeft(toServer) \in Nat
      /\ Len(toServer) \in Nat
  BY Weights
<1>5. ServerLeft[state] \in Nat /\ QueryLeft(toServer') \in Nat
  BY <1>1, WeightsBecome
<1>6. QueryLeft(toServer') <= QueryLeft(toServer)
  BY <1>3 DEF QueryLeft
<1>7. \A s, l, q, x, s1, q1, n \in Nat :
          s1 + 2 * n <= s /\ q1 <= q => s1 + l + q1 + (x - 1) + 2 * n < s + l + q + x
  OBVIOUS
<1>8. ServerLeft[state] + LinkLeft(link) + QueryLeft(toServer') + (Len(toServer) - 1) + 2 * Len(t)
      < ServerLeft[server] + LinkLeft(link) + QueryLeft(toServer) + Len(toServer)
  BY <1>2, <1>4, <1>5, <1>6, <1>7
<1>9. LinkLeft(link') = LinkLeft(link)
  BY <1>1 DEF LinkLeft
<1> QED
  BY <1>1, <1>2, <1>3, <1>8, <1>9, ServerLess

LEMMA LogInSizes ==
    /\ Len(<<>> \o <<<<"info">>, <<"ready">>>>) = 2 /\ IsSeq(<<>> \o <<<<"info">>, <<"ready">>>>)
    /\ Len(<<<<"server_final">>>> \o <<<<"info">>, <<"ready">>>>) = 3
    /\ IsSeq(<<<<"server_final">>>> \o <<<<"info">>, <<"ready">>>>)
<1> DEFINE w == <<<<"info">>, <<"ready">>>>
           f == <<<<"server_final">>>>
<1>1. IsSeq(w) /\ Len(w) = 2 /\ IsSeq(f) /\ Len(f) = 1 /\ IsSeq(<<>>) /\ Len(<<>>) = 0
  BY Sizes
<1> DEFINE e == <<>>
<1>2. IsSeq(e) /\ Len(e) = 0
  BY <1>1
<1> HIDE DEF w, f, e
<1>3. IsSeq(e \o w) /\ Len(e \o w) = 2
  <2>1. IsSeq(e \o w) /\ Len(e \o w) = Len(e) + Len(w)
    BY <1>1, <1>2, ConcatOf
  <2> QED
    BY <1>1, <1>2, <2>1
<1>4. IsSeq(f \o w) /\ Len(f \o w) = 3
  <2>1. IsSeq(f \o w) /\ Len(f \o w) = Len(f) + Len(w)
    BY <1>1, ConcatOf
  <2> QED
    BY <1>1, <2>1
<1> QED
  BY <1>3, <1>4 DEF w, f, e

LEMMA HandshakeCountsDown ==
    ASSUME IInv, IInv',
           ServerSSL \/ ServerStartup \/ ServerRefuses \/ ServerPassword \/ ServerFirst \/ ServerFinal
    PROVE  Left' < Left
<1> USE DEF Reads
<1>1. toServer # <<>>
  BY DEF ServerSSL, ServerStartup, ServerRefuses, ServerPassword, ServerFirst, ServerFinal
<1>2. ASSUME Refuse, server \in {"startup", "password", "sasl_first", "sasl_final"} PROVE Left' < Left
  <2>1. Reply("gone", <<<<"error">>, <<"eof">>>>)
    BY <1>2 DEF Refuse
  <2>2. IsSeq(<<<<"error">>, <<"eof">>>>) /\ Len(<<<<"error">>, <<"eof">>>>) = 2
    BY Sizes
  <2>3. ServerLeft["gone"] + 2 * 2 <= ServerLeft[server]
    BY <1>2, ServerWeighs
  <2> QED
    BY <1>1, <2>1, <2>2, <2>3, ReplyLess
<1>3. ASSUME LogIn(<<>>), server \in {"startup", "password"} PROVE Left' < Left
  <2>1. Reply("idle", <<>> \o <<<<"info">>, <<"ready">>>>)
    BY <1>3 DEF LogIn
  <2>2. ServerLeft["idle"] + 2 * 2 <= ServerLeft[server]
    BY <1>3, ServerWeighs
  <2> QED
    BY <1>1, <2>1, <2>2, LogInSizes, ReplyLess
<1>4. ASSUME LogIn(<<<<"server_final">>>>), server = "sasl_final" PROVE Left' < Left
  <2>1. Reply("idle", <<<<"server_final">>>> \o <<<<"info">>, <<"ready">>>>)
    BY <1>4 DEF LogIn
  <2>2. ServerLeft["idle"] + 2 * 3 <= ServerLeft[server]
    BY <1>4, ServerWeighs
  <2> QED
    BY <1>1, <2>1, <2>2, LogInSizes, ReplyLess
<1>5. ASSUME NEW state, NEW m, Reply(state, <<m>>), ServerLeft[state] + 2 <= ServerLeft[server]
      PROVE  Left' < Left
  <2>1. IsSeq(<<m>>) /\ Len(<<m>>) = 1
    BY Sizes
  <2>2. ServerLeft[state] + 2 * Len(<<m>>) <= ServerLeft[server]
    BY <1>5, <2>1
  <2> QED
    BY <1>1, <1>5, <2>1, <2>2, ReplyLess
<1>6. CASE ServerSSL
  <2>1. Reply("startup", <<<<IF setup.tls THEN "S" ELSE "N">>>>) /\ server = "negotiating"
    BY <1>6 DEF ServerSSL
  <2>2. ServerLeft["startup"] + 2 <= ServerLeft[server]
    BY <2>1, ServerWeighs
  <2> QED
    BY <1>5, <2>1, <2>2
<1>7. CASE ServerStartup
  <2>1. server = "startup"
    BY <1>7 DEF ServerStartup
  <2>2. /\ ServerLeft["password"] + 2 <= ServerLeft[server]
        /\ ServerLeft["sasl_first"] + 2 <= ServerLeft[server]
    BY <2>1, ServerWeighs
  <2>3. CASE LogIn(<<>>)
    BY <1>3, <2>1, <2>3
  <2>4. CASE Reply("password", <<<<"password_request">>>>)
    BY <1>5, <2>2, <2>4
  <2>5. CASE Reply("sasl_first", <<<<"sasl", setup.mechanisms>>>>)
    BY <1>5, <2>2, <2>5
  <2>6. CASE Reply("password", <<<<"unsupported">>>>)
    BY <1>5, <2>2, <2>6
  <2> QED
    BY <1>7, <2>3, <2>4, <2>5, <2>6 DEF ServerStartup
<1>8. CASE ServerRefuses
  BY <1>2, <1>8 DEF ServerRefuses
<1>9. CASE ServerPassword
  BY <1>2, <1>3, <1>9 DEF ServerPassword
<1>10. CASE ServerFirst
  <2>1. server = "sasl_first"
    BY <1>10 DEF ServerFirst
  <2>2. CASE Reply("sasl_final", <<<<"server_first">>>>)
    <3>1. ServerLeft["sasl_final"] + 2 <= ServerLeft[server]
      BY <2>1, ServerWeighs
    <3> QED
      BY <1>5, <2>2, <3>1
  <2> QED
    BY <1>2, <1>10, <2>1, <2>2 DEF ServerFirst
<1>11. CASE ServerFinal
  BY <1>2, <1>4, <1>11 DEF ServerFinal
<1> QED
  BY <1>6, <1>7, <1>8, <1>9, <1>10, <1>11

LEMMA CommandCountsDown ==
    ASSUME IInv, IInv', ServerQuery \/ ServerCommits \/ ServerRefusesCommand
    PROVE  Left' < Left
<1>1. IsSeq(toServer) /\ IsSeq(toClient)
  BY DEF IInv, Kind
<1>2. LinkLeft(link) \in Nat /\ Len(toServer) \in Nat /\ Len(toClient) \in Nat /\ QueryLeft(toServer) \in Nat
  BY Weights
<1>3. CASE ServerQuery
  <2>1. server = "idle" /\ server' = "executing" /\ UNCHANGED <<pc, current, link, toServer, toClient>>
    BY <1>3 DEF ServerQuery, clientVars
  <2>2. ServerLeft[server] = 20 /\ ServerLeft[server'] = 19
    BY <2>1, ServerWeighs
  <2>3. /\ LinkLeft(link') = LinkLeft(link) /\ QueryLeft(toServer') = QueryLeft(toServer)
        /\ Len(toServer') = Len(toServer)
    BY <2>1 DEF LinkLeft, QueryLeft
  <2>4. ServerLeft[server'] + LinkLeft(link') + QueryLeft(toServer') + Len(toServer') + 2 * 0
        < ServerLeft[server] + LinkLeft(link) + QueryLeft(toServer) + Len(toServer)
    BY <1>2, <2>2, <2>3
  <2>5. Len(toClient') <= Len(toClient) + 0
    BY <1>2, <2>1
  <2> QED
    BY <2>1, <2>4, <2>5, ServerLess
<1>4. ASSUME NEW t, IsSeq(t), Len(t) <= 3, toClient' = toClient \/ toClient' = toClient \o t,
             server = "executing", server' = "idle", toServer' = Tail(toServer),
             UNCHANGED <<pc, current, link>>
      PROVE  Left' < Left
  <2>1. ServerLeft[server] = 19 /\ ServerLeft[server'] = 20
    BY <1>4, ServerWeighs
  <2>2. QueryLeft(toServer) = 10
    <3>1. toServer # <<>> /\ Head(toServer)[1] = "query"
      BY <1>4, ExecutingIs
    <3>2. 1 \in DOMAIN toServer /\ toServer[1] = Head(toServer)
      BY <1>1, <3>1, TailOf, SeqIs
    <3>3. ~No(toServer, "query")
      BY <3>1, <3>2 DEF No
    <3> QED
      BY <3>3 DEF QueryLeft
  <2>3. QueryLeft(toServer') = 0
    BY <1>4, ExecutingIs DEF QueryLeft
  <2>4. Len(toServer') = Len(toServer) - 1
    BY <1>1, <1>4, ExecutingIs, TailOf
  <2>5. LinkLeft(link') = LinkLeft(link)
    BY <1>4 DEF LinkLeft
  <2>6. ServerLeft[server'] + LinkLeft(link') + QueryLeft(toServer') + Len(toServer') + 2 * 3
        < ServerLeft[server] + LinkLeft(link) + QueryLeft(toServer) + Len(toServer)
    BY <1>2, <2>1, <2>2, <2>3, <2>4, <2>5
  <2>7. Len(toClient') <= Len(toClient) + 3
    <3>1. Len(t) \in Nat /\ Len(toClient') <= Len(toClient) + Len(t)
      BY <1>4, Arrives
    <3>2. Len(toClient') \in Nat
      BY WeightsBecome
    <3> QED
      BY <1>2, <1>4, <3>1, <3>2
  <2> QED
    BY <1>4, <2>6, <2>7, ServerLess
<1>5. CASE ServerCommits
  <2> DEFINE answer == <<<<"complete", Head(toServer)[2]>>, <<"ready">>>>
             info == <<<<"info">>>>
  <2>1. /\ server = "executing" /\ server' = "idle" /\ toServer' = Tail(toServer)
        /\ UNCHANGED <<pc, current, link>>
    BY <1>5 DEF ServerCommits, clientVars
  <2>2. PICK notices \in {<<>>, info} :
            toClient' = toClient \/ toClient' = (toClient \o notices) \o answer
    BY <1>5 DEF ServerCommits
  <2>3. IsSeq(answer) /\ Len(answer) = 2
    BY Sizes
  <2>4. IsSeq(info) /\ Len(info) = 1
    BY Sizes
  <2> HIDE DEF answer, info
  <2>5. IsSeq(notices) /\ Len(notices) \in {0, 1}
    BY <2>4, Sizes
  <2>6. IsSeq(notices \o answer) /\ Len(notices \o answer) <= 3
    <3>1. IsSeq(notices \o answer) /\ Len(notices \o answer) = Len(notices) + Len(answer)
      BY <2>3, <2>5, ConcatOf
    <3> QED
      BY <2>3, <2>5, <3>1
  <2>7. (toClient \o notices) \o answer = toClient \o (notices \o answer)
    BY <1>1, <2>3, <2>5, ConcatAssoc
  <2>8. toClient' = toClient \/ toClient' = toClient \o (notices \o answer)
    BY <2>2, <2>7
  <2> QED
    BY <1>4, <2>1, <2>6, <2>8
<1>6. CASE ServerRefusesCommand
  <2> DEFINE t == <<<<"error">>, <<"ready">>>>
  <2>1. /\ server = "executing" /\ server' = "idle" /\ toServer' = Tail(toServer)
        /\ UNCHANGED <<pc, current, link>>
        /\ toClient' = toClient \/ toClient' = toClient \o t
    BY <1>6 DEF ServerRefusesCommand, Reply, clientVars
  <2>2. IsSeq(t) /\ Len(t) = 2
    BY Sizes
  <2> HIDE DEF t
  <2>3. Len(t) <= 3
    BY <2>2
  <2> QED
    BY <1>4, <2>1, <2>2, <2>3
<1> QED
  BY <1>3, <1>5, <1>6

\* The server goes.
LEMMA EndCountsDown ==
    ASSUME IInv, IInv', ServerEnds \/ ServerNotices \/ ServerStops
    PROVE  Left' < Left
<1>1. server \in {"negotiating", "startup", "password", "sasl_first", "sasl_final", "idle", "executing"}
      /\ server' = "gone" /\ UNCHANGED <<pc, current, link>>
  <2>1. server \notin {"none", "gone"} /\ server' = "gone" /\ UNCHANGED <<pc, current, link>>
    BY DEF ServerEnds, ServerNotices, ServerStops, Reply, clientVars
  <2> QED
    BY <2>1 DEF IInv, Kind, BeforeReady
<1>2. ServerLeft[server] \in 19..60 /\ ServerLeft[server'] = 0
  BY <1>1, ServerWeighs
<1>3. LinkLeft(link) \in Nat /\ Len(toServer) \in Nat /\ Len(toClient) \in Nat /\ QueryLeft(toServer) \in Nat
  BY Weights
<1>4. LinkLeft(link') = LinkLeft(link)
  BY <1>1 DEF LinkLeft
<1>5. Len(toServer') <= Len(toServer) /\ QueryLeft(toServer') <= QueryLeft(toServer)
  <2>1. toServer' = toServer \/ (toServer # <<>> /\ toServer' = Tail(toServer))
    BY DEF ServerEnds, ServerNotices, ServerStops, Reply, Reads
  <2>2. CASE toServer' = toServer
    <3>1. Len(toServer') = Len(toServer) /\ QueryLeft(toServer') = QueryLeft(toServer)
      BY <2>2 DEF QueryLeft
    <3> QED
      BY <1>3, <3>1
  <2>3. CASE toServer # <<>> /\ toServer' = Tail(toServer)
    <3>1. Len(toServer') = Len(toServer) - 1 /\ (No(toServer, "query") => No(toServer', "query"))
      BY <2>3, TailOf, TailKeeps DEF IInv, Kind
    <3> QED
      BY <1>3, <3>1 DEF QueryLeft
  <2> QED
    BY <2>1, <2>2, <2>3
<1>6. Len(toClient') <= Len(toClient) + 2
  <2> DEFINE e == <<<<"eof">>>>
             r == <<<<"error">>>>
  <2>1. IsSeq(e) /\ Len(e) = 1 /\ IsSeq(r) /\ Len(r) = 1 /\ IsSeq(<<>>) /\ Len(<<>>) = 0
    BY Sizes
  <2>2. IsSeq(toClient)
    BY DEF IInv, Kind
  <2>3. \/ toClient' = toClient
        \/ toClient' = toClient \o e
        \/ \E last \in {<<>>, r} : toClient' = (toClient \o last) \o e
    BY DEF ServerEnds, ServerNotices, ServerStops, Reply
  <2> HIDE DEF e, r
  <2>4. Len(toClient \o e) = Len(toClient) + 1
    <3>1. Len(toClient \o e) = Len(toClient) + Len(e)
      BY <2>1, <2>2, ConcatOf
    <3> QED
      BY <2>1, <3>1
  <2>5. \A last \in {<<>>, r} : Len((toClient \o last) \o e) <= Len(toClient) + 2
    <3> SUFFICES ASSUME NEW last \in {<<>>, r}
                 PROVE  Len((toClient \o last) \o e) <= Len(toClient) + 2
      OBVIOUS
    <3>1. IsSeq(last) /\ Len(last) \in {0, 1}
      BY <2>1
    <3>2. IsSeq(toClient \o last) /\ Len(toClient \o last) = Len(toClient) + Len(last)
      BY <2>2, <3>1, ConcatOf
    <3>3. Len((toClient \o last) \o e) = Len(toClient \o last) + Len(e)
      BY <2>1, <3>2, ConcatOf
    <3>4. Len((toClient \o last) \o e) = Len(toClient) + Len(last) + 1
      BY <2>1, <3>2, <3>3
    <3>5. \A x \in Nat, n \in {0, 1} : x + n + 1 <= x + 2
      OBVIOUS
    <3>6. Len(toClient) + Len(last) + 1 <= Len(toClient) + 2
      BY <1>3, <3>1, <3>5
    <3> QED
      BY <3>4, <3>6
  <2> QED
    BY <1>3, <2>3, <2>4, <2>5
<1>7. ServerLeft[server'] + LinkLeft(link') + QueryLeft(toServer') + Len(toServer') + 2 * 2
      < ServerLeft[server] + LinkLeft(link) + QueryLeft(toServer) + Len(toServer)
  <2>1. Len(toServer') \in Nat /\ QueryLeft(toServer') \in Nat
    BY WeightsBecome
  <2>2. ServerLeft[server] \in Nat /\ ServerLeft[server] >= 19
    BY <1>2
  <2>3. \A s, l, q, x, q1, x1 \in Nat :
            s >= 19 /\ q1 <= q /\ x1 <= x => 0 + l + q1 + x1 + 2 * 2 < s + l + q + x
    OBVIOUS
  <2>4. 0 + LinkLeft(link) + QueryLeft(toServer') + Len(toServer') + 2 * 2
        < ServerLeft[server] + LinkLeft(link) + QueryLeft(toServer) + Len(toServer)
    BY <1>3, <1>5, <2>1, <2>2, <2>3
  <2> QED
    BY <1>2, <1>4, <2>4
<1> QED
  BY <1>1, <1>6, <1>7, ServerLess

LEMMA BreakCountsDown ==
    ASSUME IInv, IInv', Break
    PROVE  Left' < Left
<1>1. /\ link = "up" /\ link' = "broken" /\ UNCHANGED <<pc, current, server>> /\ toClient' = <<>>
      /\ toServer' = IF server = "executing" THEN <<Head(toServer)>> ELSE <<>>
  BY DEF Break, clientVars, serverVars
<1>2. LinkLeft(link) = 1 /\ LinkLeft(link') = 0
  BY <1>1 DEF LinkLeft
<1>3. Len(toServer) \in Nat /\ Len(toClient) \in Nat /\ QueryLeft(toServer) \in Nat /\ ServerLeft[server] \in Nat
  BY Weights
<1>4. Len(toServer') <= Len(toServer) /\ QueryLeft(toServer') <= QueryLeft(toServer)
  <2>1. CASE server = "executing"
    <3> DEFINE h == Head(toServer)
    <3>1. toServer # <<>> /\ h[1] = "query" /\ IsSeq(toServer)
      BY <2>1, ExecutingIs DEF IInv, Kind
    <3>2. Len(toServer) \in Nat \ {0} /\ 1 \in DOMAIN toServer /\ toServer[1] = h
      BY <3>1, TailOf, SeqIs
    <3>3. ~No(toServer, "query")
      BY <3>1, <3>2 DEF No
    <3>4. toServer' = <<h>>
      BY <1>1, <2>1
    <3> HIDE DEF h
    <3>5. Len(toServer') = 1
      BY <3>4, Sizes
    <3>6. QueryLeft(toServer) = 10 /\ QueryLeft(toServer') <= 10
      BY <3>3 DEF QueryLeft
    <3> QED
      BY <3>2, <3>5, <3>6
  <2>2. CASE server # "executing"
    <3>1. toServer' = <<>>
      BY <1>1, <2>2
    <3>2. Len(toServer') = 0 /\ QueryLeft(toServer') = 0
      BY <3>1, Sizes DEF QueryLeft
    <3> QED
      BY <1>3, <3>2
  <2> QED
    BY <2>1, <2>2
<1>5. ServerLeft[server'] + LinkLeft(link') + QueryLeft(toServer') + Len(toServer') + 2 * 0
      < ServerLeft[server] + LinkLeft(link) + QueryLeft(toServer) + Len(toServer)
  <2>1. Len(toServer') \in Nat /\ QueryLeft(toServer') \in Nat /\ ServerLeft[server'] = ServerLeft[server]
    BY <1>1, WeightsBecome
  <2> QED
    BY <1>2, <1>3, <1>4, <2>1
<1>6. Len(toClient') <= Len(toClient) + 0
  BY <1>1, <1>3, Sizes
<1> QED
  BY <1>1, <1>5, <1>6, ServerLess

\* For any number of commands, any servers, and whatever is lost, refused or
\* broken when: every step of client, server and network brings the
\* connection nearer to its end (core.py, execute_simple and handle_messages
\* have no retry, and every message is an answer to an earlier one).
THEOREM CountsDownHolds == Spec => CountsDown
<1>1. ASSUME IInv, [Next]_vars PROVE [Left' < Left]_vars
  <2>1. IInv'
    BY <1>1, NextIInv
  <2>2. ASSUME Next PROVE Left' < Left
    BY <1>1, <2>1, <2>2, ClientCountsDown, HandshakeCountsDown, CommandCountsDown, EndCountsDown,
       BreakCountsDown DEF Next, ServerNext
  <2> QED
    BY <1>1, <2>2
<1> QED
  BY <1>1, InitIInv, NextIInv, PTL DEF Spec, CountsDown

\* What is left is never less than nothing; so no behaviour, fair or not, takes
\* more steps than there are left at its start.
THEOREM LeftIsNatural == Spec => [](Left \in Nat)
<1>1. IInv /\ TypeOK => Left \in Nat
  <2> SUFFICES ASSUME IInv, TypeOK PROVE Left \in Nat
    OBVIOUS
  <2>1. Rest \in Nat /\ Left = 20 * (LastCommand - current) + Rest
    BY RestIs
  <2>2. PICK n \in Nat : n = 20 * (LastCommand - current)
    BY LastCommandAssumption DEF TypeOK
  <2> QED
    BY <2>1, <2>2
<1> QED
  BY <1>1, InitIInv, NextIInv, TypeCorrect, PTL DEF Spec

-----------------------------------------------------------------------------
(***************************************************************************)
(* Client and server are never stuck.  What is on its way to the server is *)
(* what it waits for, and after that only the end; what is on its way to   *)
(* the client is what the client reads, with more to follow until a        *)
(* ReadyForQuery or the end.                                               *)
(***************************************************************************)
IsEnd(m) == m[1] \in {"terminate", "eof"}
EndsAfter(s) == \A k \in DOMAIN s : k # 1 => IsEnd(s[k])

\* CommandComplete, a notice or an error is not the last.
Followed(s) ==
    \A k \in DOMAIN s : s[k][1] \in {"info", "complete", "server_final", "error"} =>
        \E j \in DOMAIN s : k < j /\ s[j][1] \in {"ready", "eof"}

\* After ReadyForQuery only the server's own end.
ReadyLast(s) ==
    \A j, k \in DOMAIN s : s[j][1] = "ready" /\ j < k => s[k][1] \in {"error", "eof"}

Live == server \notin {"none", "gone"}

Turn(state, m) == <<state, m[1]>> \in Awaited \/ (state = "executing" /\ m[1] = "query")

InTurn ==
    Live => /\ EndsAfter(toServer)
            /\ toServer # <<>> => IsEnd(Head(toServer)) \/ Turn(server, Head(toServer))

\* The connection exists once the server does.
Connected ==
    /\ link = "none" => server = "none"
    /\ server = "none" => pc \in {"new", "failed"}

\* Where the server is while the client negotiates and logs in.
Stages ==
    /\ pc = "ssl" =>
        /\ server \in {"negotiating", "startup", "gone"}
        /\ \A m \in Messages(toServer) : m[1] = "ssl_request"
    /\ pc = "login" => server # "negotiating"
    /\ pc \in {"ssl", "login"} =>
        \A m \in Messages(toClient) :
            /\ m[1] \in {"S", "N"} => server \in {"startup", "gone"}
            /\ m[1] = "password_request" => server \in {"password", "gone"}

\* What is on its way to a client in this state.
For(state, s) ==
    /\ state \in {"ssl", "login", "running"} => \A m \in Messages(s) : m[1] \in Handled[state]
    /\ state = "idle" => \A m \in Messages(s) : m[1] \in Handled["running"]

HasEof(s) == \E m \in Messages(s) : m[1] = "eof"
HasEnd(s) == \E m \in Messages(s) : IsEnd(m)

EofThere == server = "gone" /\ link = "up" => HasEof(toClient)

Waiting ==
    link = "up" /\ pc \in {"ssl", "login", "running"} => toClient # <<>> \/ (Live /\ toServer # <<>>)

Closed == pc \in {"succeeded", "failed"} /\ link = "up" /\ Live => HasEnd(toServer)

Going ==
    /\ InTurn /\ Connected /\ Stages /\ For(pc, toClient)
    /\ Followed(toClient) /\ ReadyLast(toClient)
    /\ EofThere /\ Waiting /\ Closed

LEMMA HandledIs ==
    /\ Handled["ssl"] = {"S", "N", "eof"}
    /\ Handled["login"] = {"password_request", "sasl", "server_first", "server_final", "info", "ready",
                           "error", "unsupported", "eof"}
    /\ Handled["running"] = {"complete", "info", "error", "ready", "eof"}
BY DEF Handled

\* What follows the first message.
LEMMA TailGoes ==
    ASSUME NEW s, IsSeq(s), s # <<>>
    PROVE  /\ Followed(s) => Followed(Tail(s))
           /\ ReadyLast(s) => ReadyLast(Tail(s))
           /\ ReadyLast(s) /\ Head(s)[1] = "ready" => \A m \in Messages(Tail(s)) : m[1] \in {"error", "eof"}
           /\ Followed(s) /\ Head(s)[1] \in {"info", "complete", "server_final", "error"} => Tail(s) # <<>>
           /\ HasEof(s) /\ Head(s)[1] # "eof" => HasEof(Tail(s)) /\ Tail(s) # <<>>
           /\ HasEnd(s) /\ ~IsEnd(Head(s)) => HasEnd(Tail(s))
           /\ EndsAfter(s) => \A m \in Messages(Tail(s)) : IsEnd(m)
<1>1. /\ Len(s) \in Nat \ {0} /\ DOMAIN s = 1..Len(s) /\ Head(s) = s[1]
      /\ DOMAIN Tail(s) = 1..Len(s) - 1 /\ Len(Tail(s)) = Len(s) - 1
      /\ \A k \in 1..Len(s) - 1 : Tail(s)[k] = s[k + 1]
  BY TailOf, SeqIs
<1>2. \A k \in DOMAIN s : k # 1 => k - 1 \in DOMAIN Tail(s) /\ Tail(s)[k - 1] = s[k]
  BY <1>1
<1>3. \A k \in DOMAIN Tail(s) : k + 1 \in DOMAIN s /\ k + 1 # 1 /\ Tail(s)[k] = s[k + 1]
  BY <1>1
<1>4. ASSUME Followed(s) PROVE Followed(Tail(s))
  <2> SUFFICES ASSUME NEW k \in DOMAIN Tail(s),
                      Tail(s)[k][1] \in {"info", "complete", "server_final", "error"}
               PROVE  \E j \in DOMAIN Tail(s) : k < j /\ Tail(s)[j][1] \in {"ready", "eof"}
    BY DEF Followed
  <2>1. PICK j \in DOMAIN s : k + 1 < j /\ s[j][1] \in {"ready", "eof"}
    BY <1>3, <1>4 DEF Followed
  <2>2. j - 1 \in DOMAIN Tail(s) /\ k < j - 1 /\ Tail(s)[j - 1] = s[j]
    BY <1>1, <2>1
  <2> QED
    BY <2>1, <2>2
<1>5. ASSUME ReadyLast(s) PROVE ReadyLast(Tail(s))
  <2> SUFFICES ASSUME NEW j \in DOMAIN Tail(s), NEW k \in DOMAIN Tail(s), Tail(s)[j][1] = "ready", j < k
               PROVE  Tail(s)[k][1] \in {"error", "eof"}
    BY DEF ReadyLast
  <2>1. j + 1 < k + 1
    BY <1>1
  <2> QED
    BY <1>3, <1>5, <2>1 DEF ReadyLast
<1>6. ASSUME ReadyLast(s), Head(s)[1] = "ready", NEW m \in Messages(Tail(s)) PROVE m[1] \in {"error", "eof"}
  <2>1. PICK k \in DOMAIN Tail(s) : m = Tail(s)[k]
    BY DEF Messages
  <2>2. 1 \in DOMAIN s /\ 1 < k + 1
    BY <1>1
  <2> QED
    BY <1>1, <1>3, <1>6, <2>1, <2>2 DEF ReadyLast
<1>7. ASSUME Followed(s), Head(s)[1] \in {"info", "complete", "server_final", "error"} PROVE Tail(s) # <<>>
  <2>1. PICK j \in DOMAIN s : 1 < j
    BY <1>1, <1>7 DEF Followed
  <2>2. DOMAIN Tail(s) # {}
    BY <1>1, <2>1
  <2> QED
    BY <2>2
<1>8. ASSUME HasEof(s), Head(s)[1] # "eof" PROVE HasEof(Tail(s)) /\ Tail(s) # <<>>
  <2>1. PICK k \in DOMAIN s : s[k][1] = "eof"
    BY <1>8 DEF HasEof, Messages
  <2>2. k # 1
    BY <1>1, <1>8, <2>1
  <2>3. k - 1 \in DOMAIN Tail(s) /\ Tail(s)[k - 1][1] = "eof"
    BY <1>2, <2>1, <2>2
  <2> QED
    BY <2>3 DEF HasEof, Messages
<1>9. ASSUME HasEnd(s), ~IsEnd(Head(s)) PROVE HasEnd(Tail(s))
  <2>1. PICK k \in DOMAIN s : IsEnd(s[k])
    BY <1>9 DEF HasEnd, Messages
  <2>2. k # 1
    BY <1>1, <1>9, <2>1
  <2>3. k - 1 \in DOMAIN Tail(s) /\ IsEnd(Tail(s)[k - 1])
    BY <1>2, <2>1, <2>2
  <2> QED
    BY <2>3 DEF HasEnd, Messages
<1>10. ASSUME EndsAfter(s), NEW m \in Messages(Tail(s)) PROVE IsEnd(m)
  BY <1>3, <1>10 DEF EndsAfter, Messages
<1> QED
  BY <1>4, <1>5, <1>6, <1>7, <1>8, <1>9, <1>10

LEMMA ConcatGoes ==
    ASSUME NEW s, NEW t, IsSeq(s), IsSeq(t)
    PROVE  /\ Followed(s) /\ Followed(t) => Followed(s \o t)
           /\ ReadyLast(s) /\ ReadyLast(t)
                /\ (No(s, "ready") \/ \A m \in Messages(t) : m[1] \in {"error", "eof"})
              => ReadyLast(s \o t)
           /\ HasEof(s) \/ HasEof(t) => HasEof(s \o t)
           /\ HasEnd(s) \/ HasEnd(t) => HasEnd(s \o t)
           /\ EndsAfter(s) /\ (\A m \in Messages(t) : IsEnd(m)) => EndsAfter(s \o t)
           /\ s # <<>> => s \o t # <<>> /\ Head(s \o t) = Head(s)
           /\ t # <<>> => s \o t # <<>>
<1> DEFINE u == s \o t
<1>1. /\ Len(s) \in Nat /\ DOMAIN s = 1..Len(s)
      /\ Len(t) \in Nat /\ DOMAIN t = 1..Len(t)
  BY SeqIs
<1>2. /\ IsSeq(u) /\ DOMAIN u = 1..Len(s) + Len(t) /\ Len(u) = Len(s) + Len(t)
      /\ \A k \in 1..Len(s) : u[k] = s[k]
      /\ \A k \in 1..Len(t) : u[Len(s) + k] = t[k]
  BY ConcatOf, SeqIs
<1>3. Messages(u) = Messages(s) \cup Messages(t)
  BY ConcatSent
<1> HIDE DEF u
<1>4. \A k \in DOMAIN u :
        \/ k \in DOMAIN s /\ u[k] = s[k]
        \/ k \notin DOMAIN s /\ k - Len(s) \in DOMAIN t /\ u[k] = t[k - Len(s)]
  <2> SUFFICES ASSUME NEW k \in 1..Len(s) + Len(t), k \notin 1..Len(s)
               PROVE  k - Len(s) \in 1..Len(t) /\ u[k] = t[k - Len(s)]
    BY <1>1, <1>2
  <2>1. k - Len(s) \in 1..Len(t) /\ k = Len(s) + (k - Len(s))
    BY <1>1
  <2> QED
    BY <1>2, <2>1
<1>5. ASSUME Followed(s), Followed(t) PROVE Followed(u)
  <2> SUFFICES ASSUME NEW k \in DOMAIN u, u[k][1] \in {"info", "complete", "server_final", "error"}
               PROVE  \E j \in DOMAIN u : k < j /\ u[j][1] \in {"ready", "eof"}
    BY DEF Followed
  <2>1. CASE k \in DOMAIN s /\ u[k] = s[k]
    <3>1. PICK j \in DOMAIN s : k < j /\ s[j][1] \in {"ready", "eof"}
      BY <1>5, <2>1 DEF Followed
    <3>2. j \in DOMAIN u /\ u[j] = s[j]
      BY <1>1, <1>2
    <3> QED
      BY <3>1, <3>2
  <2>2. CASE k - Len(s) \in DOMAIN t /\ u[k] = t[k - Len(s)]
    <3>1. PICK j \in DOMAIN t : k - Len(s) < j /\ t[j][1] \in {"ready", "eof"}
      BY <1>5, <2>2 DEF Followed
    <3>2. Len(s) + j \in DOMAIN u /\ u[Len(s) + j] = t[j] /\ k < Len(s) + j
      BY <1>1, <1>2, <3>1
    <3> QED
      BY <3>1, <3>2
  <2> QED
    BY <1>4, <2>1, <2>2
<1>6. ASSUME ReadyLast(s), ReadyLast(t), No(s, "ready") \/ \A m \in Messages(t) : m[1] \in {"error", "eof"}
      PROVE  ReadyLast(u)
  <2> SUFFICES ASSUME NEW j \in DOMAIN u, NEW k \in DOMAIN u, u[j][1] = "ready", j < k
               PROVE  u[k][1] \in {"error", "eof"}
    BY DEF ReadyLast
  <2>1. CASE j \in DOMAIN s /\ u[j] = s[j]
    <3>1. \A m \in Messages(t) : m[1] \in {"error", "eof"}
      BY <1>6, <2>1 DEF No
    <3>2. CASE k \in DOMAIN s /\ u[k] = s[k]
      BY <1>6, <2>1, <3>2 DEF ReadyLast
    <3>3. CASE k - Len(s) \in DOMAIN t /\ u[k] = t[k - Len(s)]
      BY <3>1, <3>3 DEF Messages
    <3> QED
      BY <1>4, <3>2, <3>3
  <2>2. CASE j \notin DOMAIN s /\ j - Len(s) \in DOMAIN t /\ u[j] = t[j - Len(s)]
    <3>1. k \notin DOMAIN s
      BY <1>1, <1>2, <2>2
    <3>2. k - Len(s) \in DOMAIN t /\ u[k] = t[k - Len(s)]
      BY <1>4, <3>1
    <3>3. j - Len(s) < k - Len(s)
      BY <1>1, <1>2
    <3> QED
      BY <1>6, <2>2, <3>2, <3>3 DEF ReadyLast
  <2> QED
    BY <1>4, <2>1, <2>2
<1>7. HasEof(s) \/ HasEof(t) => HasEof(u)
  BY <1>3 DEF HasEof
<1>8. HasEnd(s) \/ HasEnd(t) => HasEnd(u)
  BY <1>3 DEF HasEnd
<1>9. ASSUME EndsAfter(s), \A m \in Messages(t) : IsEnd(m) PROVE EndsAfter(u)
  BY <1>4, <1>9 DEF EndsAfter, Messages
<1>10. ASSUME s # <<>> PROVE u # <<>> /\ Head(u) = Head(s)
  <2>1. Len(s) \in Nat \ {0} /\ Head(s) = s[1]
    BY <1>10, TailOf
  <2>2. 1 \in DOMAIN u /\ u[1] = s[1]
    BY <1>1, <1>2, <2>1
  <2>3. u # <<>>
    BY <2>2
  <2>4. Head(u) = u[1]
    BY <1>2, <2>3, TailOf
  <2> QED
    BY <2>1, <2>2, <2>3, <2>4
<1>11. ASSUME t # <<>> PROVE u # <<>>
  <2>1. Len(t) \in Nat \ {0}
    BY <1>11, TailOf
  <2>2. Len(u) # 0
    BY <1>1, <1>2, <2>1
  <2>3. Len(<<>>) = 0
    BY Empty
  <2> QED
    BY <2>2, <2>3
<1> QED
  BY <1>5, <1>6, <1>7, <1>8, <1>9, <1>10, <1>11 DEF u

\* What the server sends as it goes on to state.
Says(t, state) ==
    /\ IsSeq(t) /\ t # <<>> /\ Followed(t) /\ ReadyLast(t) /\ For(pc, t)
    /\ No(toClient, "ready") \/ \A m \in Messages(t) : m[1] \in {"error", "eof"}
    /\ \A m \in Messages(t) :
        /\ m[1] \in {"S", "N"} => state = "startup"
        /\ m[1] = "password_request" => state = "password"
    /\ state = "gone" => HasEof(t)
    /\ pc = "ssl" => state \in {"negotiating", "startup", "gone"}
    /\ pc = "login" => state # "negotiating"

LEMMA SaysGoes ==
    ASSUME IInv, Going, Live, NEW t, NEW state, Says(t, state), server' = state, state # "none",
           toClient' = IF link = "up" THEN toClient \o t ELSE toClient,
           state = "gone" \/ pc \notin {"ssl", "login"} \/ NoToken(toClient),
           InTurn', Messages(toServer') \subseteq Messages(toServer),
           state # "gone" /\ HasEnd(toServer) => HasEnd(toServer'),
           UNCHANGED <<pc, link>>
    PROVE  Going'
<1>1. IsSeq(toClient) /\ IsSeq(t)
  BY DEF IInv, Kind, Says
<1>2. Messages(toClient') \subseteq Messages(toClient) \cup Messages(t)
  BY <1>1, ConcatSent
<1>3. Connected'
  BY DEF Going, Connected, Live
<1>4. Stages'
  <2>1. pc = "ssl" => state \in {"negotiating", "startup", "gone"} /\ \A m \in Messages(toServer') : m[1] = "ssl_request"
    BY DEF Going, Stages, Says
  <2>2. pc = "login" => state # "negotiating"
    BY DEF Says
  <2>3. pc \in {"ssl", "login"} =>
          \A m \in Messages(toClient') :
            /\ m[1] \in {"S", "N"} => state \in {"startup", "gone"}
            /\ m[1] = "password_request" => state \in {"password", "gone"}
    BY <1>2 DEF Says, NoToken, Tokens
  <2> QED
    BY <2>1, <2>2, <2>3 DEF Stages, Messages
<1>5. For(pc, toClient')
  BY <1>2 DEF Going, For, Says
<1>6. For(pc, toClient)'
  BY <1>5 DEF For, Messages, Handled
<1>7. Followed(toClient') /\ ReadyLast(toClient')
  <2>1. Followed(toClient \o t) /\ ReadyLast(toClient \o t)
    BY <1>1, ConcatGoes DEF Going, Says
  <2> QED
    BY <2>1 DEF Going
<1>8. EofThere'
  <2>1. state = "gone" => HasEof(toClient \o t)
    BY <1>1, ConcatGoes DEF Says
  <2>2. state = "gone" /\ link = "up" => HasEof(toClient')
    BY <2>1
  <2> QED
    BY <2>2 DEF EofThere, HasEof, Messages
<1>9. Waiting'
  <2>1. toClient \o t # <<>>
    BY <1>1, ConcatGoes DEF Says
  <2> QED
    BY <2>1 DEF Waiting
<1>10. Closed'
  <2>1. pc \in {"succeeded", "failed"} /\ link = "up" /\ state # "gone" => HasEnd(toServer')
    BY DEF Going, Closed
  <2> QED
    BY <2>1 DEF Closed, Live, HasEnd, Messages, IsEnd
<1> QED
  BY <1>3, <1>4, <1>6, <1>7, <1>8, <1>9, <1>10 DEF Going, Followed, ReadyLast

\* The end is all that is left to read.
LEMMA EndsInTurn ==
    ASSUME IsSeq(toServer'), \A m \in Messages(toServer') : IsEnd(m)
    PROVE  InTurn'
<1>1. \A k \in DOMAIN toServer' : IsEnd(toServer'[k])
  BY DEF Messages
<1>2. toServer' # <<>> => IsEnd(Head(toServer'))
  BY TailSent
<1> QED
  BY <1>1, <1>2 DEF InTurn, EndsAfter, IsEnd

LEMMA ReplyGoes ==
    ASSUME KeepsStep, Going, Live, NEW t, NEW state, Says(t, state), Reply(state, t), state # "none",
           toServer # <<>>, state = "gone" \/ ~IsEnd(Head(toServer))
    PROVE  Going'
<1>1. IsSeq(toServer) /\ IInv
  BY DEF KeepsStep, IInv, Kind
<1>2. /\ server' = state /\ toServer' = Tail(toServer) /\ UNCHANGED <<pc, link>>
      /\ toClient' = IF link = "up" THEN toClient \o t ELSE toClient
  BY DEF Reply, clientVars
<1>3. IsSeq(toServer') /\ Messages(toServer') \subseteq Messages(toServer)
  BY <1>1, <1>2, TailOf, TailSent
<1>4. InTurn'
  <2>1. EndsAfter(toServer)
    BY DEF Going, InTurn
  <2>2. \A m \in Messages(toServer') : IsEnd(m)
    BY <1>1, <1>2, <2>1, TailGoes
  <2> QED
    BY <1>3, <2>2, EndsInTurn
<1>5. state # "gone" /\ HasEnd(toServer) => HasEnd(toServer')
  BY <1>1, <1>2, TailGoes
<1>6. pc \in {"ssl", "login"} => NoToken(toClient)
  BY DEF KeepsStep, Login, TakeTurns
<1> QED
  BY <1>1, <1>2, <1>3, <1>4, <1>5, <1>6, SaysGoes

\* What the client is doing while the server logs it in.
LEMMA HandshakeIs ==
    ASSUME IInv, Going,
           server \in {"negotiating", "startup", "password", "sasl_first", "sasl_final"}
    PROVE  /\ pc \in {"ssl", "login", "failed"} /\ Live /\ No(toClient, "ready")
           /\ pc = "ssl" /\ toServer # <<>> => Head(toServer)[1] = "ssl_request"
           /\ server = "negotiating" => pc # "login"
<1>1. pc \in {"ssl", "login", "failed"} /\ Live
  BY DEF IInv, Counts, BeforeReady, Live
<1>2. No(toClient, "ready")
  BY DEF IInv, Readies, OneReady, BeforeReady
<1>3. pc = "ssl" /\ toServer # <<>> => Head(toServer)[1] = "ssl_request"
  <2>1. IsSeq(toServer)
    BY DEF IInv, Kind
  <2> QED
    BY <2>1, TailSent DEF Going, Stages
<1>4. server = "negotiating" => pc # "login"
  BY DEF Going, Stages
<1> QED
  BY <1>1, <1>2, <1>3, <1>4

LEMMA OneSaid ==
    ASSUME NEW m
    PROVE  /\ IsSeq(<<m>>) /\ <<m>> # <<>> /\ Messages(<<m>>) = {m}
           /\ ReadyLast(<<m>>) /\ EndsAfter(<<m>>)
           /\ m[1] \notin {"info", "complete", "server_final", "error"} => Followed(<<m>>)
<1> DEFINE s == <<m>>
<1>1. IsSeq(s) /\ Messages(s) = {m}
  BY OneSent
<1>2. DOMAIN s = {1} /\ s[1] = m /\ s # <<>>
  OBVIOUS
<1> HIDE DEF s
<1>3. ReadyLast(s) /\ EndsAfter(s) /\ (m[1] \notin {"info", "complete", "server_final", "error"} => Followed(s))
  BY <1>2 DEF ReadyLast, EndsAfter, Followed
<1> QED
  BY <1>1, <1>2, <1>3 DEF s

LEMMA TwoSaid ==
    ASSUME NEW m, NEW n, m[1] # "ready", n[1] \in {"ready", "eof"}
    PROVE  /\ IsSeq(<<m, n>>) /\ <<m, n>> # <<>> /\ Messages(<<m, n>>) = {m, n}
           /\ ReadyLast(<<m, n>>) /\ Followed(<<m, n>>)
<1> DEFINE s == <<m, n>>
<1>1. IsSeq(s)
  BY Pair
<1>2. DOMAIN s = {1, 2} /\ s[1] = m /\ s[2] = n /\ s # <<>>
  OBVIOUS
<1> HIDE DEF s
<1>3. Messages(s) = {m, n}
  BY <1>2 DEF Messages
<1>4. ReadyLast(s)
  BY <1>2 DEF ReadyLast
<1>5. Followed(s)
  BY <1>2 DEF Followed
<1> QED
  BY <1>1, <1>2, <1>3, <1>4, <1>5 DEF s

\* A notice, or the end of SASL, before what follows it.
LEMMA BeforeSaid ==
    ASSUME NEW n, NEW t, IsSeq(t), Followed(t), ReadyLast(t), t # <<>>,
           NEW m, n \in {<<>>, <<m>>}, m[1] # "ready",
           \E j \in DOMAIN t : t[j][1] \in {"ready", "eof"}
    PROVE  /\ IsSeq(n \o t) /\ n \o t # <<>> /\ Messages(n \o t) \subseteq {m} \cup Messages(t)
           /\ ReadyLast(n \o t) /\ Followed(n \o t)
<1>1. IsSeq(n) /\ Messages(n) \subseteq {m} /\ No(n, "ready") /\ ReadyLast(n)
  <2>1. CASE n = <<>>
    <3>1. DOMAIN n = {}
      BY <2>1
    <3> QED
      BY <2>1, <3>1, Empty, NoneSent DEF ReadyLast
  <2>2. CASE n = <<m>>
    BY <2>2, OneSaid, Single
  <2> QED
    BY <2>1, <2>2
<1>2. IsSeq(n \o t) /\ n \o t # <<>> /\ ReadyLast(n \o t)
  BY <1>1, ConcatOf, ConcatGoes
<1>3. Messages(n \o t) \subseteq {m} \cup Messages(t)
  BY <1>1, ConcatSent
<1>4. Followed(n \o t)
  <2>1. /\ Len(n) \in Nat /\ DOMAIN n = 1..Len(n) /\ Len(t) \in Nat /\ DOMAIN t = 1..Len(t)
    BY <1>1, SeqIs
  <2>2. /\ DOMAIN (n \o t) = 1..Len(n) + Len(t)
        /\ \A k \in 1..Len(t) : (n \o t)[Len(n) + k] = t[k]
    BY <1>1, ConcatOf, SeqIs
  <2> SUFFICES ASSUME NEW k \in DOMAIN (n \o t),
                      (n \o t)[k][1] \in {"info", "complete", "server_final", "error"}
               PROVE  \E j \in DOMAIN (n \o t) : k < j /\ (n \o t)[j][1] \in {"ready", "eof"}
    BY DEF Followed
  <2>3. CASE k \in 1..Len(n)
    <3>1. PICK j \in DOMAIN t : t[j][1] \in {"ready", "eof"}
      OBVIOUS
    <3>2. Len(n) + j \in DOMAIN (n \o t) /\ (n \o t)[Len(n) + j] = t[j] /\ k < Len(n) + j
      BY <2>1, <2>2, <2>3
    <3> QED
      BY <3>1, <3>2
  <2>4. CASE k \notin 1..Len(n)
    <3>1. k - Len(n) \in 1..Len(t) /\ k = Len(n) + (k - Len(n))
      BY <2>1, <2>2, <2>4
    <3>2. (n \o t)[k] = t[k - Len(n)] /\ k - Len(n) \in DOMAIN t
      BY <2>1, <2>2, <3>1
    <3>3. PICK j \in DOMAIN t : k - Len(n) < j /\ t[j][1] \in {"ready", "eof"}
      BY <3>2 DEF Followed
    <3>4. Len(n) + j \in DOMAIN (n \o t) /\ (n \o t)[Len(n) + j] = t[j] /\ k < Len(n) + j
      BY <2>1, <2>2, <3>1, <3>3
    <3> QED
      BY <3>3, <3>4
  <2> QED
    BY <2>3, <2>4
<1> QED
  BY <1>2, <1>3, <1>4

LEMMA HandshakeGoes ==
    ASSUME KeepsStep, Going,
           ServerSSL \/ ServerStartup \/ ServerRefuses \/ ServerPassword \/ ServerFirst \/ ServerFinal
    PROVE  Going'
<1> USE DEF Reads
<1>1. IInv /\ toServer # <<>>
      /\ server \in {"negotiating", "startup", "password", "sasl_first", "sasl_final"}
  BY DEF KeepsStep, ServerSSL, ServerStartup, ServerRefuses, ServerPassword, ServerFirst, ServerFinal
<1>2. Head(toServer)[1] \in {"ssl_request", "startup", "password", "client_first", "client_final"}
  BY DEF ServerSSL, ServerStartup, ServerRefuses, ServerPassword, ServerFirst, ServerFinal
<1>3. ~IsEnd(Head(toServer))
  BY <1>2 DEF IsEnd
<1>4. /\ pc \in {"ssl", "login", "failed"} /\ Live /\ No(toClient, "ready")
      /\ Head(toServer)[1] # "ssl_request" => pc \in {"login", "failed"}
      /\ server = "negotiating" => pc \in {"ssl", "failed"}
  BY <1>1, HandshakeIs
<1>5. ASSUME NEW t, NEW state, Says(t, state), state # "none", Reply(state, t) PROVE Going'
  BY <1>1, <1>3, <1>4, <1>5, ReplyGoes
<1>6. ASSUME Refuse, Head(toServer)[1] # "ssl_request" PROVE Going'
  <2> DEFINE m == <<"error">>
             n == <<"eof">>
  <2>1. m[1] = "error" /\ n[1] = "eof" /\ Reply("gone", <<m, n>>)
    BY <1>6 DEF Refuse
  <2> HIDE DEF m, n
  <2>2. /\ IsSeq(<<m, n>>) /\ <<m, n>> # <<>> /\ Messages(<<m, n>>) = {m, n}
        /\ ReadyLast(<<m, n>>) /\ Followed(<<m, n>>)
    BY <2>1, TwoSaid
  <2>3. Says(<<m, n>>, "gone")
    BY <1>4, <1>6, <2>1, <2>2, HandledIs DEF Says, For, HasEof
  <2> QED
    BY <1>5, <2>1, <2>3
<1>7. ASSUME NEW t, t \in {<<>>, <<<<"server_final">>>>}, LogIn(t), Head(toServer)[1] # "ssl_request"
      PROVE  Going'
  <2> DEFINE i == <<"info">>
             r == <<"ready">>
             f == <<"server_final">>
             w == <<i, r>>
  <2>1. i[1] = "info" /\ r[1] = "ready" /\ f[1] = "server_final" /\ Reply("idle", t \o w)
        /\ t \in {<<>>, <<f>>}
    BY <1>7 DEF LogIn
  <2>2. DOMAIN w = {1, 2} /\ w[2] = r
    OBVIOUS
  <2> HIDE DEF i, r, f
  <2>3. /\ IsSeq(w) /\ w # <<>> /\ Messages(w) = {i, r} /\ ReadyLast(w) /\ Followed(w)
    BY <2>1, TwoSaid
  <2> HIDE DEF w
  <2>4. \E j \in DOMAIN w : w[j][1] \in {"ready", "eof"}
    BY <2>1, <2>2
  <2>5. /\ IsSeq(t \o w) /\ t \o w # <<>> /\ Messages(t \o w) \subseteq {f} \cup Messages(w)
        /\ ReadyLast(t \o w) /\ Followed(t \o w)
    BY <2>1, <2>3, <2>4, BeforeSaid
  <2>6. \A m \in Messages(t \o w) : m[1] \in {"server_final", "info", "ready"}
    BY <2>1, <2>3, <2>5
  <2>7. pc \in {"login", "failed"}
    BY <1>4, <1>7
  <2>8. For(pc, t \o w)
    BY <2>6, <2>7, HandledIs DEF For
  <2>9. Says(t \o w, "idle")
    BY <1>4, <2>5, <2>6, <2>7, <2>8 DEF Says
  <2> QED
    BY <1>5, <2>1, <2>9
<1>8. ASSUME NEW m, NEW state \in {"startup", "password", "sasl_first", "sasl_final"}, Reply(state, <<m>>),
             m[1] \in {"S", "N"} => state = "startup",
             m[1] = "password_request" => state = "password",
             \/ m[1] \in {"S", "N"} /\ pc \in {"ssl", "failed"}
             \/ m[1] \in {"password_request", "sasl", "server_first", "unsupported"} /\ pc \in {"login", "failed"}
      PROVE  Going'
  <2>1. /\ IsSeq(<<m>>) /\ <<m>> # <<>> /\ Messages(<<m>>) = {m} /\ ReadyLast(<<m>>) /\ Followed(<<m>>)
    BY <1>8, OneSaid
  <2>2. For(pc, <<m>>)
    BY <1>8, <2>1, HandledIs DEF For
  <2>3. Says(<<m>>, state)
    BY <1>4, <1>8, <2>1, <2>2 DEF Says
  <2> QED
    BY <1>5, <1>8, <2>3
<1>9. CASE ServerSSL
  <2> DEFINE m == <<IF setup.tls THEN "S" ELSE "N">>
  <2>1. m[1] \in {"S", "N"} /\ Reply("startup", <<m>>) /\ server = "negotiating"
    BY <1>9 DEF ServerSSL
  <2> HIDE DEF m
  <2>2. pc \in {"ssl", "failed"} /\ m[1] # "password_request"
    BY <1>4, <2>1
  <2> QED
    BY <1>8, <2>1, <2>2
<1>10. CASE ServerStartup
  <2>1. Head(toServer)[1] # "ssl_request"
    BY <1>10 DEF ServerStartup
  <2>2. pc \in {"login", "failed"}
    BY <1>4, <2>1
  <2>3. CASE LogIn(<<>>)
    BY <1>7, <2>1, <2>3
  <2>4. ASSUME NEW m, NEW state \in {"password", "sasl_first"}, Reply(state, <<m>>),
               m[1] \in {"password_request", "sasl", "unsupported"},
               m[1] = "password_request" => state = "password"
        PROVE  Going'
    BY <1>8, <2>2, <2>4
  <2>5. CASE Reply("password", <<<<"password_request">>>>)
    <3>1. <<"password_request">>[1] = "password_request"
      OBVIOUS
    <3> QED
      BY <2>4, <2>5, <3>1
  <2>6. CASE Reply("sasl_first", <<<<"sasl", setup.mechanisms>>>>)
    <3>1. <<"sasl", setup.mechanisms>>[1] = "sasl"
      OBVIOUS
    <3> QED
      BY <2>4, <2>6, <3>1
  <2>7. CASE Reply("password", <<<<"unsupported">>>>)
    <3>1. <<"unsupported">>[1] = "unsupported"
      OBVIOUS
    <3> QED
      BY <2>4, <2>7, <3>1
  <2> QED
    BY <1>10, <2>3, <2>5, <2>6, <2>7 DEF ServerStartup
<1>11. CASE ServerRefuses
  BY <1>6, <1>11 DEF ServerRefuses
<1>12. CASE ServerPassword
  BY <1>6, <1>7, <1>12 DEF ServerPassword
<1>13. CASE ServerFirst
  <2>1. Head(toServer)[1] # "ssl_request"
    BY <1>13 DEF ServerFirst
  <2>2. CASE Reply("sasl_final", <<<<"server_first">>>>)
    <3>1. <<"server_first">>[1] = "server_first" /\ pc \in {"login", "failed"}
      BY <1>4, <2>1
    <3> QED
      BY <1>8, <2>2, <3>1
  <2> QED
    BY <1>6, <1>13, <2>1, <2>2 DEF ServerFirst
<1>14. CASE ServerFinal
  BY <1>6, <1>7, <1>14 DEF ServerFinal
<1> QED
  BY <1>9, <1>10, <1>11, <1>12, <1>13, <1>14

\* A command begins.
LEMMA QueryGoes ==
    ASSUME KeepsStep, Going, ServerQuery
    PROVE  Going'
<1>1. /\ server = "idle" /\ server' = "executing" /\ UNCHANGED <<pc, link, toServer, toClient>>
      /\ toServer # <<>> /\ Head(toServer)[1] = "query"
  BY DEF ServerQuery, Reads, clientVars
<1>2. pc \in {"running", "failed"}
  <2>1. 1 \in DOMAIN toServer /\ toServer[1] = Head(toServer)
    BY <1>1, TailOf, SeqIs DEF KeepsStep, IInv, Kind
  <2> QED
    BY <1>1, <2>1 DEF KeepsStep, IInv, Queries, No, OneQuery
<1>3. InTurn'
  <2>1. EndsAfter(toServer)
    BY <1>1 DEF Going, InTurn, Live
  <2> QED
    BY <1>1, <2>1 DEF InTurn, EndsAfter, Turn
<1>4. Connected' /\ Stages'
  BY <1>1, <1>2 DEF Going, Connected, Stages
<1>5. For(pc, toClient)' /\ Followed(toClient)' /\ ReadyLast(toClient)'
  BY <1>1 DEF Going, For, Messages, Handled, Followed, ReadyLast
<1>6. EofThere' /\ Waiting'
  BY <1>1 DEF EofThere, Waiting, Live
<1>7. Closed'
  BY <1>1 DEF Going, Closed, Live, HasEnd, Messages, IsEnd
<1> QED
  BY <1>3, <1>4, <1>5, <1>6, <1>7 DEF Going

\* A command ends.
LEMMA AnswerGoes ==
    ASSUME KeepsStep, Going, server = "executing", server' = "idle",
           NEW t, IsSeq(t), t # <<>>, Followed(t), ReadyLast(t),
           \A m \in Messages(t) : m[1] \in {"info", "complete", "error", "ready"},
           toServer' = Tail(toServer),
           toClient' = IF link = "up" THEN toClient \o t ELSE toClient,
           UNCHANGED <<pc, link>>
    PROVE  Going'
<1>1. IInv /\ IsSeq(toServer)
  BY DEF KeepsStep, IInv, Kind
<1>2. OneQuery /\ toServer # <<>> /\ Head(toServer)[1] = "query"
  BY <1>1, ExecutingIs
<1>3. pc \in {"running", "failed"} /\ No(toClient, "ready")
  BY <1>2 DEF OneQuery
<1>4. Live
  BY DEF Live
<1>5. Says(t, "idle")
  <2>1. For(pc, t)
    BY <1>3, HandledIs DEF For
  <2> QED
    BY <1>3, <2>1 DEF Says
<1>6. IsSeq(toServer') /\ Messages(toServer') \subseteq Messages(toServer)
  BY <1>1, <1>2, TailOf, TailSent
<1>7. InTurn'
  <2>1. EndsAfter(toServer)
    BY <1>4 DEF Going, InTurn
  <2>2. \A m \in Messages(toServer') : IsEnd(m)
    BY <1>1, <1>2, <2>1, TailGoes
  <2> QED
    BY <1>6, <2>2, EndsInTurn
<1>8. HasEnd(toServer) => HasEnd(toServer')
  <2>1. ~IsEnd(Head(toServer))
    BY <1>2 DEF IsEnd
  <2> QED
    BY <1>1, <1>2, <2>1, TailGoes
<1>9. pc \notin {"ssl", "login"}
  BY <1>3
<1> QED
  BY <1>1, <1>4, <1>5, <1>6, <1>7, <1>8, <1>9, SaysGoes

LEMMA CommandGoes ==
    ASSUME KeepsStep, Going, ServerQuery \/ ServerCommits \/ ServerRefusesCommand
    PROVE  Going'
<1>1. CASE ServerCommits
  <2> DEFINE c == <<"complete", Head(toServer)[2]>>
             r == <<"ready">>
             i == <<"info">>
             w == <<c, r>>
  <2>1. c[1] = "complete" /\ r[1] = "ready" /\ i[1] = "info"
    OBVIOUS
  <2>2. DOMAIN w = {1, 2} /\ w[2] = r
    OBVIOUS
  <2>3. /\ server = "executing" /\ server' = "idle" /\ toServer' = Tail(toServer)
        /\ \E n \in {<<>>, <<i>>} : toClient' = IF link = "up" THEN toClient \o n \o w ELSE toClient
        /\ UNCHANGED <<pc, link>>
    BY <1>1 DEF ServerCommits, clientVars
  <2> HIDE DEF c, r, i
  <2>4. /\ IsSeq(w) /\ w # <<>> /\ Messages(w) = {c, r} /\ ReadyLast(w) /\ Followed(w)
    BY <2>1, TwoSaid
  <2> HIDE DEF w
  <2>5. \E j \in DOMAIN w : w[j][1] \in {"ready", "eof"}
    BY <2>1, <2>2
  <2>6. PICK n \in {<<>>, <<i>>} : toClient' = IF link = "up" THEN toClient \o n \o w ELSE toClient
    BY <2>3
  <2>7. /\ IsSeq(n \o w) /\ n \o w # <<>> /\ Messages(n \o w) \subseteq {i} \cup Messages(w)
        /\ ReadyLast(n \o w) /\ Followed(n \o w)
    BY <2>1, <2>4, <2>5, BeforeSaid
  <2>8. toClient' = IF link = "up" THEN toClient \o (n \o w) ELSE toClient
    <3>1. IsSeq(n)
      BY Empty, Single
    <3>2. (toClient \o n) \o w = toClient \o (n \o w)
      BY <2>4, <3>1, ConcatAssoc, SMTT(30) DEF KeepsStep, IInv, Kind
    <3> QED
      BY <2>6, <3>2
  <2>9. \A m \in Messages(n \o w) : m[1] \in {"info", "complete", "error", "ready"}
    BY <2>1, <2>4, <2>7
  <2> QED
    BY <2>3, <2>7, <2>8, <2>9, AnswerGoes
<1>2. CASE ServerRefusesCommand
  <2> DEFINE e == <<"error">>
             r == <<"ready">>
  <2>1. e[1] = "error" /\ r[1] = "ready" /\ server = "executing" /\ Reply("idle", <<e, r>>)
    BY <1>2 DEF ServerRefusesCommand
  <2> HIDE DEF e, r
  <2>2. /\ IsSeq(<<e, r>>) /\ <<e, r>> # <<>> /\ Messages(<<e, r>>) = {e, r}
        /\ ReadyLast(<<e, r>>) /\ Followed(<<e, r>>)
    BY <2>1, TwoSaid
  <2>3. \A m \in Messages(<<e, r>>) : m[1] \in {"info", "complete", "error", "ready"}
    BY <2>1, <2>2
  <2>4. /\ server' = "idle" /\ toServer' = Tail(toServer) /\ UNCHANGED <<pc, link>>
        /\ toClient' = IF link = "up" THEN toClient \o <<e, r>> ELSE toClient
    BY <2>1 DEF Reply, clientVars
  <2> QED
    BY <2>1, <2>2, <2>3, <2>4, AnswerGoes
<1> QED
  BY <1>1, <1>2, QueryGoes

\* The server goes, and says so.
LEMMA StopGoes ==
    ASSUME KeepsStep, Going, Live, server' = "gone",
           NEW t, IsSeq(t), t # <<>>, Followed(t), ReadyLast(t), HasEof(t), For(pc, t),
           \A m \in Messages(t) : m[1] \in {"error", "eof"},
           IsSeq(toServer'), Messages(toServer') \subseteq Messages(toServer),
           toClient' = IF link = "up" THEN toClient \o t ELSE toClient,
           UNCHANGED <<pc, link>>
    PROVE  Going'
<1>1. Says(t, "gone")
  BY DEF Says
<1>2. InTurn'
  BY DEF InTurn, Live
<1>3. IInv
  BY DEF KeepsStep
<1> QED
  BY <1>1, <1>2, <1>3, SaysGoes

LEMMA EndGoes ==
    ASSUME KeepsStep, Going, ServerEnds \/ ServerNotices \/ ServerStops
    PROVE  Going'
<1> DEFINE e == <<"eof">>
           f == <<"error">>
<1>1. e[1] = "eof" /\ f[1] = "error"
  OBVIOUS
<1>2. IsSeq(toServer) /\ IsSeq(toClient) /\ IInv
  BY DEF KeepsStep, IInv, Kind
<1>3. Live /\ server' = "gone" /\ UNCHANGED <<pc, link>>
  BY DEF ServerEnds, ServerNotices, ServerStops, Reply, clientVars, Live
<1>4. CASE ServerEnds
  <2>1. /\ toServer # <<>> /\ toServer' = Tail(toServer)
        /\ toClient' = IF link = "up" THEN toClient \o <<e>> ELSE toClient
    BY <1>4 DEF ServerEnds, Reads, Reply
  <2> HIDE DEF e
  <2>2. IsSeq(toServer') /\ Messages(toServer') \subseteq Messages(toServer)
    BY <1>2, <2>1, TailOf, TailSent
  <2>3. IsSeq(<<e>>) /\ <<e>> # <<>> /\ Messages(<<e>>) = {e} /\ ReadyLast(<<e>>) /\ Followed(<<e>>)
    BY <1>1, OneSaid
  <2>4. HasEof(<<e>>) /\ For(pc, <<e>>)
    BY <1>1, <2>3, HandledIs DEF HasEof, For
  <2>5. \A m \in Messages(<<e>>) : m[1] \in {"error", "eof"}
    BY <1>1, <2>3
  <2> QED
    BY <1>3, <2>1, <2>2, <2>3, <2>4, <2>5, StopGoes
<1>5. CASE ServerStops
  <2>1. /\ toServer' = toServer
        /\ \E last \in IF server \in {"negotiating", "startup"} THEN {<<>>} ELSE {<<>>, <<f>>} :
              toClient' = IF link = "up" THEN toClient \o last \o <<e>> ELSE toClient
    BY <1>5 DEF ServerStops
  <2> HIDE DEF e, f
  <2>2. PICK last \in {<<>>, <<f>>} :
            /\ toClient' = IF link = "up" THEN toClient \o last \o <<e>> ELSE toClient
            /\ server \in {"negotiating", "startup"} => last = <<>>
    BY <2>1
  <2>3. /\ IsSeq(<<e>>) /\ <<e>> # <<>> /\ Messages(<<e>>) = {e} /\ ReadyLast(<<e>>) /\ Followed(<<e>>)
        /\ \E j \in DOMAIN <<e>> : <<e>>[j][1] \in {"ready", "eof"}
    <3>1. DOMAIN <<e>> = {1} /\ <<e>>[1] = e
      OBVIOUS
    <3> QED
      BY <1>1, <3>1, OneSaid
  <2>4. IsSeq(last) /\ Messages(last) \subseteq {f} /\ (last = <<>> => Messages(last) = {})
    BY NoneSent, Empty, OneSaid
  <2> DEFINE w == <<e>>
             t == last \o w
  <2> HIDE DEF w
  <2>5. IsSeq(t) /\ t # <<>> /\ ReadyLast(t) /\ Followed(t)
    BY <1>1, <2>2, <2>3, BeforeSaid DEF w
  <2>6. Messages(t) = Messages(last) \cup {e} /\ HasEof(t)
    BY <1>1, <2>3, <2>4, ConcatSent DEF w, HasEof
  <2>7. toClient' = IF link = "up" THEN toClient \o t ELSE toClient
    <3>1. (toClient \o last) \o w = toClient \o (last \o w)
      BY <1>2, <2>3, <2>4, ConcatAssoc DEF w
    <3> QED
      BY <2>2, <3>1 DEF w
  <2> HIDE DEF t
  <2>8. \A m \in Messages(t) : m[1] \in {"error", "eof"}
    BY <1>1, <2>4, <2>6
  <2>9. For(pc, t)
    <3>1. ASSUME pc = "ssl" PROVE Messages(t) = {e}
      <4>1. server \in {"negotiating", "startup"}
        BY <1>3, <3>1 DEF Going, Stages, Live
      <4> QED
        BY <2>2, <2>4, <2>6, <4>1
    <3>2. pc = "ssl" => \A m \in Messages(t) : m[1] = "eof"
      BY <1>1, <3>1
    <3> QED
      BY <2>8, <3>2, HandledIs DEF For
  <2> QED
    BY <1>2, <1>3, <2>1, <2>5, <2>6, <2>7, <2>8, <2>9, StopGoes
<1>6. CASE ServerNotices
  <2>1. link = "broken" /\ UNCHANGED <<toServer, toClient>>
    BY <1>6 DEF ServerNotices
  <2>2. InTurn' /\ EofThere' /\ Waiting' /\ Closed'
    BY <1>3, <2>1 DEF InTurn, EofThere, Waiting, Closed, Live
  <2>3. Connected' /\ Stages'
    BY <1>3, <2>1 DEF Going, Connected, Stages, Messages
  <2>4. For(pc, toClient)' /\ Followed(toClient)' /\ ReadyLast(toClient)'
    BY <1>3, <2>1 DEF Going, For, Messages, Handled, Followed, ReadyLast
  <2> QED
    BY <2>2, <2>3, <2>4 DEF Going
<1> QED
  BY <1>4, <1>5, <1>6

\* What is on its way is lost, and both sides find out.
LEMMA BreakGoes ==
    ASSUME KeepsStep, Going, Break
    PROVE  Going'
<1>1. /\ link = "up" /\ link' = "broken" /\ toClient' = <<>> /\ UNCHANGED <<pc, server>>
      /\ toServer' = IF server = "executing" THEN <<Head(toServer)>> ELSE <<>>
  BY DEF Break, clientVars, serverVars
<1>2. server = "executing" => toServer # <<>> /\ Head(toServer)[1] = "query" /\ pc \in {"running", "failed"}
  BY ExecutingIs DEF KeepsStep, OneQuery
<1>3. InTurn'
  <2>1. CASE server = "executing"
    <3> DEFINE q == Head(toServer)
    <3>1. toServer' = <<q>> /\ q[1] = "query"
      BY <1>1, <1>2, <2>1
    <3> HIDE DEF q
    <3>2. DOMAIN <<q>> = {1} /\ Head(<<q>>) = q
      OBVIOUS
    <3>3. EndsAfter(toServer') /\ Head(toServer') = q
      BY <3>1, <3>2 DEF EndsAfter
    <3> QED
      BY <1>1, <2>1, <3>1, <3>3 DEF InTurn, EndsAfter, Turn
  <2>2. CASE server # "executing"
    <3>1. toServer' = <<>>
      BY <1>1, <2>2
    <3>2. IsSeq(toServer') /\ Messages(toServer') = {}
      BY <3>1, NoneSent, Empty
    <3> QED
      BY <3>2, EndsInTurn
  <2> QED
    BY <2>1, <2>2
<1>4. Messages(toClient') = {} /\ DOMAIN toClient' = {}
  BY <1>1, NoneSent
<1>5. Connected'
  BY <1>1 DEF Going, Connected
<1>6. Stages'
  <2>1. pc = "ssl" => toServer' = <<>>
    BY <1>1, <1>2
  <2>2. pc = "ssl" => Messages(toServer') = {}
    BY <2>1, NoneSent
  <2> QED
    BY <1>1, <1>4, <2>2 DEF Going, Stages, Messages
<1>7. For(pc, toClient)' /\ Followed(toClient)' /\ ReadyLast(toClient)'
  BY <1>1, <1>4 DEF For, Messages, Followed, ReadyLast
<1>8. EofThere' /\ Waiting' /\ Closed'
  BY <1>1 DEF EofThere, Waiting, Closed
<1> QED
  BY <1>3, <1>5, <1>6, <1>7, <1>8 DEF Going

\* The client reads, and goes on reading or is done.
LEMMA ReadsGo ==
    ASSUME KeepsStep, Going, toClient # <<>>, Consume,
           \/ /\ pc \in {"login", "running"} /\ pc' = pc
              /\ Head(toClient)[1] \in {"info", "complete", "server_final", "error"}
           \/ /\ pc \in {"login", "running"} /\ pc' = "idle"
              /\ Head(toClient)[1] = "ready",
           UNCHANGED <<server, link, toServer>>
    PROVE  Going'
<1>1. IsSeq(toClient) /\ toClient' = Tail(toClient) /\ Head(toClient)[1] # "eof"
  BY DEF KeepsStep, IInv, Kind, Consume
<1>2. Messages(toClient') \subseteq Messages(toClient)
  BY <1>1, TailSent
<1>3. Followed(toClient') /\ ReadyLast(toClient')
  BY <1>1, TailGoes DEF Going
<1>4. InTurn' /\ Connected' /\ Closed'
  BY DEF Going, InTurn, Live, EndsAfter, Turn, Connected, Closed
<1>5. Stages'
  BY <1>2 DEF Going, Stages, Messages
<1>6. For(pc', toClient')
  <2>1. CASE pc' = pc
    BY <1>2, <2>1 DEF Going, For
  <2>2. CASE pc' = "idle" /\ Head(toClient)[1] = "ready"
    <3>1. \A m \in Messages(toClient') : m[1] \in {"error", "eof"}
      BY <1>1, <2>2, TailGoes DEF Going
    <3> QED
      BY <2>2, <3>1, HandledIs DEF For
  <2> QED
    BY <2>1, <2>2
<1>7. EofThere'
  <2>1. HasEof(toClient) => HasEof(toClient')
    BY <1>1, TailGoes
  <2> QED
    BY <2>1 DEF Going, EofThere, HasEof, Messages
<1>8. Waiting'
  <2>1. pc' # "idle" => toClient' # <<>>
    BY <1>1, TailGoes DEF Going
  <2> QED
    BY <2>1 DEF Waiting
<1>9. For(pc, toClient)'
  BY <1>6 DEF For, Messages, Handled
<1> QED
  BY <1>3, <1>4, <1>5, <1>7, <1>8, <1>9 DEF Going, Followed, ReadyLast

\* The client takes its turn in the login, and the server waits for that.
LEMMA TurnGoes ==
    ASSUME KeepsStep, Going, pc \in {"ssl", "login"}, pc' = "login",
           toClient # <<>>, Head(toClient)[1] \in Tokens, Consume,
           NEW m, Send(<<m>>), server # "gone" => Turn(server, m) /\ server # "negotiating",
           UNCHANGED server
    PROVE  Going'
<1>1. IsSeq(toClient) /\ toClient' = Tail(toClient) /\ Head(toClient)[1] # "eof"
  BY DEF KeepsStep, IInv, Kind, Consume, Tokens
<1>2. TakeTurns
  BY DEF KeepsStep, Login
<1>3. NoToken(toClient') /\ Messages(toClient') \subseteq Messages(toClient)
  BY <1>1, <1>2, TailSent DEF TakeTurns
<1>4. toServer = <<>>
  <2>1. Head(toClient) \in Messages(toClient)
    BY <1>1, TailSent
  <2> QED
    BY <1>2, <2>1 DEF TakeTurns, NoToken
<1>5. link' = link /\ toServer' = IF link = "up" THEN <<m>> ELSE <<>>
  <2>1. <<>> \o <<m>> = <<m>>
    BY OnlyMessage
  <2> QED
    BY <1>4, <2>1 DEF Send
<1>6. server # "none"
  BY DEF Going, Connected
<1>7. InTurn'
  <2>1. CASE link = "up"
    <3>1. DOMAIN <<m>> = {1} /\ Head(<<m>>) = m
      OBVIOUS
    <3>2. EndsAfter(toServer') /\ Head(toServer') = m
      BY <1>5, <2>1, <3>1 DEF EndsAfter
    <3> QED
      BY <3>2 DEF InTurn, Live, EndsAfter, Turn
  <2>2. CASE link # "up"
    <3>1. IsSeq(toServer') /\ Messages(toServer') = {}
      BY <1>5, <2>2, Empty, NoneSent
    <3> QED
      BY <3>1, EndsInTurn
  <2> QED
    BY <2>1, <2>2
<1>8. Connected' /\ Closed'
  BY <1>5, <1>6 DEF Going, Connected, Closed
<1>9. Stages'
  <2>1. \A n \in Messages(toClient') : n[1] \notin {"S", "N", "password_request"}
    BY <1>3 DEF NoToken, Tokens
  <2>2. server # "negotiating"
    OBVIOUS
  <2> QED
    BY <2>1, <2>2 DEF Stages, Messages
<1>10. For(pc', toClient')
  <2>1. pc = "ssl" => \A n \in Messages(toClient') : n[1] = "eof"
    BY <1>3, HandledIs DEF Going, For, NoToken, Tokens
  <2>2. pc = "login" => \A n \in Messages(toClient') : n[1] \in Handled["login"]
    BY <1>3 DEF Going, For
  <2> QED
    BY <2>1, <2>2, HandledIs DEF For
<1>11. For(pc, toClient)'
  BY <1>10 DEF For, Messages, Handled
<1>12. Followed(toClient') /\ ReadyLast(toClient')
  BY <1>1, TailGoes DEF Going
<1>13. server = "gone" /\ link = "up" => HasEof(toClient') /\ toClient' # <<>>
  BY <1>1, TailGoes DEF Going, EofThere
<1>14. EofThere'
  BY <1>5, <1>13 DEF EofThere, HasEof, Messages
<1>15. Waiting'
  <2>1. link = "up" => toServer' # <<>>
    BY <1>5
  <2> QED
    BY <1>5, <1>6, <1>13, <2>1 DEF Waiting, Live
<1> QED
  BY <1>7, <1>8, <1>9, <1>11, <1>12, <1>14, <1>15 DEF Going, Followed, ReadyLast

\* The server has closed the connection, and the client goes on without TLS.
LEMMA ClosedGoes ==
    ASSUME KeepsStep, Going, Unsecured, Receives("eof"), UNCHANGED toClient
    PROVE  Going'
<1>1. /\ pc = "ssl" /\ pc' = "login" /\ UNCHANGED <<server, link>>
      /\ toClient # <<>> /\ Head(toClient)[1] = "eof"
  BY DEF Unsecured, StartUp, Send, serverVars, Receives
<1>2. Messages(toClient) = {Head(toClient)}
  BY <1>1, TailSent DEF KeepsStep, IInv, Kind, Streams
<1>3. server = "gone"
  BY <1>1, <1>2 DEF KeepsStep, Streams, NoEof
<1>4. InTurn' /\ Connected' /\ Closed'
  BY <1>1, <1>3 DEF Going, InTurn, Live, Connected, Closed
<1>5. \A m \in Messages(toClient') : m[1] = "eof"
  BY <1>1, <1>2
<1>6. Stages'
  BY <1>1, <1>3 DEF Stages
<1>7. For(pc', toClient')
  BY <1>1, <1>5, HandledIs DEF For
<1>8. For(pc, toClient)'
  BY <1>7 DEF For, Messages, Handled
<1>9. EofThere' /\ Waiting'
  BY <1>1 DEF Going, EofThere, HasEof, Messages, Waiting
<1> QED
  BY <1>4, <1>6, <1>8, <1>9 DEF Going, Followed, ReadyLast

\* What the server waits for when it has asked for it.
LEMMA AwaitedIs ==
    /\ <<"startup", "startup">> \in Awaited /\ <<"password", "password">> \in Awaited
    /\ <<"sasl_first", "client_first">> \in Awaited /\ <<"sasl_final", "client_final">> \in Awaited
    /\ <<"idle", "query">> \in Awaited /\ <<"negotiating", "ssl_request">> \in Awaited
BY DEF Awaited

LEMMA TurnsGo ==
    ASSUME KeepsStep, Going,
           Secured \/ Unsecured \/ LoginPassword \/ LoginSASL \/ LoginSASLContinue
    PROVE  Going'
<1>1. /\ pc \in {"ssl", "login"} /\ pc' = "login" /\ UNCHANGED server
      /\ toClient # <<>> /\ IsSeq(toClient)
  BY DEF KeepsStep, IInv, Kind, Secured, Unsecured, LoginPassword, LoginSASL, LoginSASLContinue,
         StartUp, LoginStep, serverVars, Receives
<1>2. Head(toClient) \in Messages(toClient)
  BY <1>1, TailSent
<1>3. Stages /\ StageFits
  BY <1>1 DEF Going, KeepsStep, Login
<1>4. ASSUME NEW m, Send(<<m>>), Consume, Head(toClient)[1] \in Tokens,
             server # "gone" => <<server, m[1]>> \in Awaited /\ server # "negotiating"
      PROVE  Going'
  BY <1>1, <1>4, TurnGoes DEF Turn
<1>5. CASE Secured \/ (Unsecured /\ Receives("N") /\ Consume)
  <2> DEFINE m == <<"startup">>
  <2>1. m[1] = "startup" /\ Send(<<m>>) /\ Consume /\ Head(toClient)[1] \in {"S", "N"}
    BY <1>5 DEF Secured, Unsecured, StartUp, Receives
  <2> HIDE DEF m
  <2>2. server \in {"startup", "gone"}
    BY <1>1, <1>2, <1>3, <2>1 DEF Stages
  <2> QED
    BY <1>4, <2>1, <2>2, AwaitedIs DEF Tokens
<1>6. CASE Unsecured /\ Receives("eof") /\ UNCHANGED toClient
  BY <1>6, ClosedGoes
<1>7. CASE LoginPassword
  <2> DEFINE m == <<"password">>
  <2>1. m[1] = "password" /\ Send(<<m>>) /\ Consume /\ Head(toClient)[1] = "password_request"
    BY <1>7 DEF LoginPassword, Receives
  <2> HIDE DEF m
  <2>2. server \in {"password", "gone"}
    BY <1>1, <1>2, <1>3, <2>1 DEF Stages
  <2> QED
    BY <1>4, <2>1, <2>2, AwaitedIs DEF Tokens
<1>8. CASE LoginSASL
  <2> DEFINE chosen == Mechanism(Head(toClient)[2])
             m == <<"client_first", chosen, Gs2Flag(chosen)>>
  <2>1. m[1] = "client_first" /\ Send(<<m>>) /\ Consume /\ Head(toClient)[1] = "sasl"
    BY <1>8 DEF LoginSASL, Receives
  <2> HIDE DEF m
  <2>2. server \in {"sasl_first", "gone"}
    BY <1>1, <1>2, <1>3, <2>1 DEF StageFits
  <2> QED
    BY <1>4, <2>1, <2>2, AwaitedIs DEF Tokens
<1>9. CASE LoginSASLContinue
  <2> DEFINE m == <<"client_final">>
  <2>1. m[1] = "client_final" /\ Send(<<m>>) /\ Consume /\ Head(toClient)[1] = "server_first"
    BY <1>9 DEF LoginSASLContinue, Receives
  <2> HIDE DEF m
  <2>2. server \in {"sasl_final", "gone"}
    BY <1>1, <1>2, <1>3, <2>1 DEF StageFits
  <2> QED
    BY <1>4, <2>1, <2>2, AwaitedIs DEF Tokens
<1> QED
  BY <1>5, <1>6, <1>7, <1>8, <1>9 DEF Unsecured

\* The client closes the connection.
LEMMA CloseGoes ==
    ASSUME KeepsStep, Going, NEW t, Send(t), IsSeq(t), t # <<>>, \A m \in Messages(t) : IsEnd(m),
           pc \in {"ssl", "login", "idle", "running"}, pc' \in {"succeeded", "failed"},
           \/ toClient' = toClient
           \/ toClient # <<>> /\ Consume /\ Head(toClient)[1] # "eof",
           UNCHANGED server
    PROVE  Going'
<1>1. IsSeq(toServer) /\ IsSeq(toClient)
  BY DEF KeepsStep, IInv, Kind
<1>2. link' = link /\ toServer' = IF link = "up" THEN toServer \o t ELSE toServer
  BY DEF Send
<1>3. Head(t) \in Messages(t)
  BY TailSent
<1>4. InTurn'
  <2>1. ASSUME Live PROVE /\ EndsAfter(toServer')
                          /\ toServer' # <<>> => IsEnd(Head(toServer')) \/ Turn(server, Head(toServer'))
    <3>1. /\ EndsAfter(toServer)
          /\ toServer # <<>> => IsEnd(Head(toServer)) \/ Turn(server, Head(toServer))
      BY <2>1 DEF Going, InTurn
    <3>2. EndsAfter(toServer \o t)
      BY <1>1, <3>1, ConcatGoes
    <3>3. toServer # <<>> => Head(toServer \o t) = Head(toServer)
      BY <1>1, ConcatGoes
    <3>4. toServer = <<>> => toServer \o t = t
      <4>1. t \in Seq({t[k] : k \in DOMAIN t})
        BY DEF IsSeq
      <4> QED
        BY <4>1
    <3> QED
      BY <1>2, <1>3, <3>1, <3>2, <3>3, <3>4
  <2> QED
    BY <2>1 DEF InTurn, Live, EndsAfter, Turn, IsEnd
<1>5. Connected' /\ Stages' /\ Waiting'
  BY <1>2 DEF Going, Connected, Stages, Waiting
<1>6. For(pc, toClient)'
  BY DEF For
<1>7. Followed(toClient') /\ ReadyLast(toClient')
  BY <1>1, TailGoes DEF Going, Consume
<1>8. EofThere'
  <2>1. HasEof(toClient) => HasEof(toClient')
    BY <1>1, TailGoes DEF Consume
  <2> QED
    BY <1>2, <2>1 DEF Going, EofThere, HasEof, Messages
<1>9. Closed'
  <2>1. HasEnd(t)
    BY <1>3 DEF HasEnd
  <2>2. link = "up" => HasEnd(toServer')
    BY <1>1, <1>2, <2>1, ConcatGoes
  <2> QED
    BY <1>2, <2>2 DEF Closed, HasEnd, Messages, IsEnd
<1> QED
  BY <1>4, <1>5, <1>6, <1>7, <1>8, <1>9 DEF Going, Followed, ReadyLast

\* There was no connection.
LEMMA NoConnectionGoes ==
    ASSUME KeepsStep, Going, ConnectFails
    PROVE  Going'
<1>1. pc = "new" /\ pc' = "failed" /\ server = "none" /\ UNCHANGED <<server, link, toServer, toClient>>
  BY DEF ConnectFails, serverVars, KeepsStep, IInv, Counts
<1>2. InTurn' /\ Closed' /\ EofThere' /\ Waiting'
  BY <1>1 DEF InTurn, Closed, EofThere, Waiting, Live
<1>3. Connected' /\ Stages' /\ For(pc, toClient)'
  BY <1>1 DEF Going, Connected, Stages, For
<1> QED
  BY <1>1, <1>2, <1>3 DEF Going, Followed, ReadyLast

LEMMA LeavesGo ==
    ASSUME KeepsStep, Going,
           \/ ConnectFails \/ NegotiationFails \/ LoginRefused \/ RunRefused \/ ReadFails
           \/ Finish \/ FinishFails
    PROVE  Going'
<1> DEFINE a == <<"terminate">>
           b == <<"eof">>
<1>1. a[1] = "terminate" /\ b[1] = "eof"
  OBVIOUS
<1>2. CASE NegotiationFails
  <2>1. /\ Send(<<b>>) /\ pc = "ssl" /\ pc' = "failed" /\ UNCHANGED <<server, toClient>>
    BY <1>2 DEF NegotiationFails, serverVars
  <2> HIDE DEF b
  <2>2. IsSeq(<<b>>) /\ <<b>> # <<>> /\ \A m \in Messages(<<b>>) : IsEnd(m)
    BY <1>1, OneSaid DEF IsEnd
  <2> QED
    BY <2>1, <2>2, CloseGoes
<1>3. CASE LoginRefused \/ RunRefused \/ ReadFails \/ Finish \/ FinishFails
  <2>1. /\ Send(<<a, b>>) /\ pc \in {"login", "idle", "running"} /\ pc' \in {"succeeded", "failed"}
        /\ UNCHANGED server
        /\ \/ toClient' = toClient
           \/ toClient # <<>> /\ Consume /\ Head(toClient)[1] # "eof"
    BY <1>3 DEF LoginRefused, RunRefused, ReadFails, Finish, FinishFails, Raise, Close, serverVars, Receives
  <2> HIDE DEF a, b
  <2>2. IsSeq(<<a, b>>) /\ <<a, b>> # <<>> /\ Messages(<<a, b>>) = {a, b}
    BY <1>1, TwoSaid
  <2>3. \A m \in Messages(<<a, b>>) : IsEnd(m)
    BY <1>1, <2>2 DEF IsEnd
  <2> QED
    BY <2>1, <2>2, <2>3, CloseGoes
<1> QED
  BY <1>2, <1>3, NoConnectionGoes

LEMMA ConnectGoes ==
    ASSUME KeepsStep, Going, Connect
    PROVE  Going'
<1> DEFINE m == <<"ssl_request">>
<1>1. m[1] = "ssl_request"
  OBVIOUS
<1>2. /\ pc = "new" /\ pc' = "ssl" /\ server' = "negotiating" /\ link' = "up"
      /\ toServer' = <<m>> /\ toClient' = toClient
  BY DEF Connect
<1> HIDE DEF m
<1>3. toClient' = <<>>
  BY <1>2 DEF KeepsStep, Login
<1>4. Messages(toClient') = {} /\ Messages(toServer') = {m} /\ toServer' # <<>> /\ EndsAfter(toServer')
  BY <1>2, <1>3, NoneSent, OneSaid
<1>5. InTurn'
  <2>1. Head(toServer') = m
    BY <1>2
  <2>2. Turn("negotiating", m)
    BY <1>1, AwaitedIs DEF Turn
  <2> QED
    BY <1>2, <1>4, <2>1, <2>2 DEF InTurn, EndsAfter, Turn
<1>6. Connected' /\ Stages'
  BY <1>1, <1>2, <1>4 DEF Connected, Stages, Messages
<1>7. For(pc, toClient)'
  BY <1>4 DEF For, Messages
<1>8. EofThere' /\ Waiting' /\ Closed'
  BY <1>2, <1>4 DEF EofThere, Waiting, Closed, Live
<1> QED
  BY <1>2, <1>5, <1>6, <1>7, <1>8 DEF Going, Followed, ReadyLast

LEMMA RunGoes ==
    ASSUME KeepsStep, Going, Run
    PROVE  Going'
<1> DEFINE m == <<"query", current + 1>>
<1>1. m[1] = "query"
  OBVIOUS
<1>2. pc = "idle" /\ pc' = "running" /\ Send(<<m>>) /\ UNCHANGED <<server, toClient>>
  BY DEF Run, serverVars
<1> HIDE DEF m
<1>3. toServer = <<>>
  BY <1>2 DEF KeepsStep, Streams
<1>4. server \in {"idle", "gone"}
  BY <1>2, <1>3 DEF KeepsStep, IInv, Kind, Counts, Queries
<1>5. link' = link /\ toServer' = IF link = "up" THEN <<m>> ELSE <<>>
  <2>1. <<>> \o <<m>> = <<m>>
    BY OnlyMessage
  <2> QED
    BY <1>2, <1>3, <2>1 DEF Send
<1>6. InTurn'
  <2>1. CASE link = "up"
    <3>1. EndsAfter(toServer') /\ Head(toServer') = m
      BY <1>5, <2>1, OneSaid
    <3>2. Turn("idle", m)
      BY <1>1, AwaitedIs DEF Turn
    <3> QED
      BY <1>2, <1>4, <3>1, <3>2 DEF InTurn, Live, EndsAfter, Turn
  <2>2. CASE link # "up"
    <3>1. IsSeq(toServer') /\ Messages(toServer') = {}
      BY <1>5, <2>2, Empty, NoneSent
    <3> QED
      BY <3>1, EndsInTurn
  <2> QED
    BY <2>1, <2>2
<1>7. Connected' /\ Stages' /\ Closed'
  BY <1>2, <1>4, <1>5 DEF Going, Connected, Stages, Closed
<1>8. For(pc', toClient')
  BY <1>2 DEF Going, For
<1>9. For(pc, toClient)'
  BY <1>8 DEF For, Messages, Handled
<1>10. EofThere'
  BY <1>2, <1>5 DEF Going, EofThere, HasEof, Messages
<1>11. Waiting'
  <2>1. CASE server = "gone"
    <3>1. link = "up" => HasEof(toClient)
      BY <2>1 DEF Going, EofThere
    <3>2. HasEof(toClient) => toClient # <<>>
      BY NoneSent DEF HasEof
    <3> QED
      BY <1>2, <1>5, <3>1, <3>2 DEF Waiting
  <2>2. CASE server = "idle"
    BY <1>2, <1>5, <2>2 DEF Waiting, Live
  <2> QED
    BY <1>4, <2>1, <2>2
<1> QED
  BY <1>2, <1>6, <1>7, <1>9, <1>10, <1>11 DEF Going, Followed, ReadyLast

LEMMA ClientKeepsGoing ==
    ASSUME KeepsStep, Going, ClientNext
    PROVE  Going'
<1>1. CASE LoginSASLFinal \/ LoginInfo \/ RunComplete \/ RunError
  <2>1. /\ toClient # <<>> /\ Consume /\ pc \in {"login", "running"} /\ pc' = pc
        /\ Head(toClient)[1] \in {"info", "complete", "server_final", "error"}
        /\ UNCHANGED <<server, link, toServer>>
    BY <1>1 DEF LoginSASLFinal, LoginInfo, RunComplete, RunError, LoginStep, clientVars, serverVars, Receives
  <2> QED
    BY <2>1, ReadsGo
<1>2. CASE LoginReady \/ RunReady
  <2>1. /\ toClient # <<>> /\ Consume /\ pc \in {"login", "running"} /\ pc' = "idle"
        /\ Head(toClient)[1] = "ready" /\ UNCHANGED <<server, link, toServer>>
    BY <1>2 DEF LoginReady, RunReady, serverVars, Receives
  <2> QED
    BY <2>1, ReadsGo
<1> QED
  BY <1>1, <1>2, TurnsGo, LeavesGo, ConnectGoes, RunGoes DEF ClientNext

LEMMA InitGoing == Init => Going
<1> SUFFICES ASSUME Init PROVE Going
  OBVIOUS
<1>1. pc = "new" /\ server = "none" /\ link = "none" /\ toServer = <<>> /\ toClient = <<>>
  BY DEF Init
<1>2. DOMAIN toClient = {}
  BY <1>1
<1>3. InTurn /\ EofThere /\ Waiting /\ Closed
  BY <1>1 DEF InTurn, EofThere, Waiting, Closed, Live
<1>4. Connected /\ Stages /\ For(pc, toClient)
  BY <1>1 DEF Connected, Stages, For
<1> QED
  BY <1>2, <1>3, <1>4 DEF Going, Followed, ReadyLast

LEMMA NextGoing ==
    ASSUME KeepsStep, Going, [Next]_vars
    PROVE  Going'
<1>1. CASE UNCHANGED vars
  <2>1. UNCHANGED <<pc, server, link, toServer, toClient>>
    BY <1>1 DEF vars
  <2>2. InTurn' /\ Connected' /\ Stages'
    BY <2>1 DEF Going, InTurn, Live, EndsAfter, Turn, IsEnd, Connected, Stages, Messages
  <2>3. For(pc, toClient)' /\ Followed(toClient)' /\ ReadyLast(toClient)'
    BY <2>1 DEF Going, For, Messages, Handled, Followed, ReadyLast
  <2>4. EofThere' /\ Waiting' /\ Closed'
    BY <2>1 DEF Going, EofThere, HasEof, Waiting, Closed, Live, HasEnd, Messages, IsEnd
  <2> QED
    BY <2>2, <2>3, <2>4 DEF Going
<1>2. CASE ClientNext
  BY <1>2, ClientKeepsGoing
<1>3. CASE ServerNext \/ ServerStops
  BY <1>3, HandshakeGoes, CommandGoes, EndGoes DEF ServerNext
<1>4. CASE Break
  BY <1>4, BreakGoes
<1> QED
  BY <1>1, <1>2, <1>3, <1>4 DEF Next

\* What is on its way to a live server is something for it.
LEMMA ServerHears ==
    ASSUME KeepsStep, Going, Live, toServer # <<>>
    PROVE  ServerCanGoOn
<1>1. CASE server = "executing"
  BY <1>1 DEF ServerCanGoOn
<1>2. CASE server # "executing"
  <2>1. IsEnd(Head(toServer)) \/ <<server, Head(toServer)[1]>> \in Awaited
    BY <1>2 DEF Going, InTurn, Turn
  <2> QED
    BY <2>1 DEF ServerCanGoOn, IsEnd, Live
<1> QED
  BY <1>1, <1>2

\* Neither side of the connection is ever left waiting for a message that
\* nobody will send (core.py, the reads of the constructor and of
\* handle_messages, and close): while it is up, there is something for the
\* client to read or for the server to do; and a client that has gone leaves
\* its server process something to find out by.
THEOREM NeverStuckHolds == Spec => []NeverStuck
<1>1. KeepsStep /\ Going /\ TypeOK => NeverStuck
  <2> SUFFICES ASSUME KeepsStep, Going, TypeOK PROVE NeverStuck
    OBVIOUS
  <2>1. ASSUME pc \in {"ssl", "login", "running"}, link = "up" PROVE ClientCanGoOn \/ ServerCanGoOn
    <3>1. CASE toClient # <<>>
      <4>1. Head(toClient) \in Messages(toClient)
        BY <3>1, TailSent DEF KeepsStep, IInv, Kind
      <4>2. Head(toClient)[1] \in Handled[pc]
        BY <2>1, <4>1 DEF Going, For
      <4> QED
        BY <2>1, <3>1, <4>2 DEF ClientCanGoOn
    <3>2. CASE toClient = <<>>
      BY <2>1, <3>2, ServerHears DEF Going, Waiting
    <3> QED
      BY <3>1, <3>2
  <2>2. ASSUME pc \in {"succeeded", "failed"}, Live PROVE ServerCanGoOn
    <3>1. CASE link = "up"
      <4>1. HasEnd(toServer)
        BY <2>2, <3>1 DEF Going, Closed
      <4>2. toServer # <<>>
        BY <4>1, NoneSent DEF HasEnd
      <4> QED
        BY <2>2, <4>2, ServerHears
    <3>2. CASE link = "broken"
      BY <2>2, <3>2 DEF ServerCanGoOn, Live
    <3>3. link # "none"
      BY <2>2 DEF Going, Connected, Live
    <3> QED
      BY <3>1, <3>2, <3>3 DEF TypeOK
  <2> QED
    BY <2>1, <2>2 DEF NeverStuck, Live
<1> QED
  BY <1>1, InitKeepsStep, NextKeepsStep, InitGoing, NextGoing, TypeCorrect, PTL DEF Spec
=============================================================================
