---------------------------- MODULE DaemonProofs ----------------------------
(***************************************************************************)
(* The daemon's tables and pending actions, for any doors, peers, budgets  *)
(* and numbers of questions.                                               *)
(***************************************************************************)
EXTENDS Daemon, FiniteSetTheorems, TLAPS

Kind == {"send", "cancel", "done"}

Act == [do : Kind, id : Nat \cup Qid]

(* What is still to be performed, and the ids of one kind in it. *)
Pend == todo \o follow

Ids(s, d) == {s[i].id : i \in {j \in DOMAIN s : s[j].do = d}}

Distinct(s) == \A i, j \in DOMAIN s : i # j => s[i] # s[j]

-----------------------------------------------------------------------------
(* Sequences of actions *)

(* What it is to be one of them. *)
LEMMA IdsIn ==
    ASSUME NEW s, NEW d, NEW x
    PROVE  x \in Ids(s, d) <=> \E i \in DOMAIN s : s[i].do = d /\ s[i].id = x
BY DEF Ids

(* No action, no id. *)
LEMMA EmptyIds ==
    /\ \A d : Ids(<<>>, d) = {}
    /\ Distinct(<<>>)
    /\ <<>> \in Seq(Act)
BY DEF Ids, Distinct

(* A single action has a single id. *)
LEMMA OneId ==
    ASSUME NEW a \in Act
    PROVE  /\ \A d : Ids(<<a>>, d) = IF a.do = d THEN {a.id} ELSE {}
           /\ Distinct(<<a>>)
           /\ <<a>> \in Seq(Act)
BY DEF Ids, Distinct

(* The ids of two lists are those of their concatenation. *)
LEMMA ConcatIds ==
    ASSUME NEW s \in Seq(Act), NEW t \in Seq(Act)
    PROVE  /\ s \o t \in Seq(Act)
           /\ \A d : Ids(s \o t, d) = Ids(s, d) \cup Ids(t, d)
<1>1. s \o t \in Seq(Act) /\ Len(s \o t) = Len(s) + Len(t)
  OBVIOUS
<1>2. \A i \in 1..Len(s) : (s \o t)[i] = s[i]
  OBVIOUS
<1>3. \A i \in 1..Len(t) : (s \o t)[i + Len(s)] = t[i] /\ i + Len(s) \in DOMAIN (s \o t)
  OBVIOUS
<1>4. ASSUME NEW d, NEW x \in Ids(s \o t, d) PROVE x \in Ids(s, d) \cup Ids(t, d)
  <2>1. PICK i \in DOMAIN (s \o t) : (s \o t)[i].do = d /\ (s \o t)[i].id = x
    BY <1>4 DEF Ids
  <2>2. CASE i <= Len(s)
    BY <1>1, <1>2, <2>1, <2>2, IdsIn
  <2>3. CASE ~(i <= Len(s))
    <3>1. i - Len(s) \in DOMAIN t /\ (s \o t)[i] = t[i - Len(s)]
      BY <1>1, <2>1, <2>3
    <3> QED BY <2>1, <3>1, IdsIn
  <2> QED BY <2>2, <2>3
<1>5. ASSUME NEW d, NEW x \in Ids(s, d) PROVE x \in Ids(s \o t, d)
  <2>1. PICK i \in DOMAIN s : s[i].do = d /\ s[i].id = x
    BY <1>5, IdsIn
  <2>2. i \in DOMAIN (s \o t) /\ (s \o t)[i] = s[i]
    BY <1>1, <2>1
  <2> QED BY ZenonT(90), <2>1, <2>2, IdsIn
<1>6. ASSUME NEW d, NEW x \in Ids(t, d) PROVE x \in Ids(s \o t, d)
  <2>1. PICK i \in DOMAIN t : t[i].do = d /\ t[i].id = x
    BY <1>6, IdsIn
  <2>2. i + Len(s) \in DOMAIN (s \o t) /\ (s \o t)[i + Len(s)] = t[i]
    BY <1>3, <2>1
  <2> QED BY ZenonT(90), <2>1, <2>2, IdsIn
<1> QED BY <1>1, <1>4, <1>5, <1>6

(* Two lists without an action in common. *)
LEMMA ConcatDistinct ==
    ASSUME NEW s \in Seq(Act), NEW t \in Seq(Act), Distinct(s), Distinct(t),
           \A d \in Kind : Ids(s, d) \cap Ids(t, d) = {}
    PROVE  Distinct(s \o t)
<1>1. \A i \in DOMAIN s, j \in DOMAIN t : s[i] # t[j]
  <2> SUFFICES ASSUME NEW i \in DOMAIN s, NEW j \in DOMAIN t, s[i] = t[j] PROVE FALSE
    OBVIOUS
  <2>1. s[i].id \in Ids(s, s[i].do) /\ t[j].id \in Ids(t, t[j].do)
    BY IdsIn
  <2>2. s[i] \in Act
    OBVIOUS
  <2>3. s[i].do \in Kind
    BY <2>2 DEF Act
  <2> QED BY <2>1, <2>3
<1>2. DOMAIN (s \o t) = 1..(Len(s) + Len(t))
  OBVIOUS
<1>3. \A i \in 1..(Len(s) + Len(t)) :
         (s \o t)[i] = IF i <= Len(s) THEN s[i] ELSE t[i - Len(s)]
  OBVIOUS
<1> SUFFICES ASSUME NEW i \in 1..(Len(s) + Len(t)), NEW j \in 1..(Len(s) + Len(t)), i # j
             PROVE  (s \o t)[i] # (s \o t)[j]
  BY <1>2 DEF Distinct
<1>4. CASE i <= Len(s) /\ j <= Len(s)
  BY <1>3, <1>4 DEF Distinct
<1>5. CASE i <= Len(s) /\ ~(j <= Len(s))
  BY <1>1, <1>3, <1>5
<1>6. CASE ~(i <= Len(s)) /\ j <= Len(s)
  BY <1>1, <1>3, <1>6
<1>7. CASE ~(i <= Len(s)) /\ ~(j <= Len(s))
  <2>1. i - Len(s) \in DOMAIN t /\ j - Len(s) \in DOMAIN t /\ i - Len(s) # j - Len(s)
    BY <1>7
  <2> QED BY <1>3, <1>7, <2>1 DEF Distinct
<1> QED BY <1>4, <1>5, <1>6, <1>7

(* The first action is carried out. *)
LEMMA TailIds ==
    ASSUME NEW s \in Seq(Act), s # <<>>, Distinct(s)
    PROVE  /\ Tail(s) \in Seq(Act) /\ Head(s) \in Act
           /\ Distinct(Tail(s))
           /\ Head(s).id \in Ids(s, Head(s).do)
           /\ \A d : Ids(Tail(s), d) = Ids(s, d) \ (IF Head(s).do = d THEN {Head(s).id} ELSE {})
<1>1. /\ Tail(s) \in Seq(Act) /\ Len(Tail(s)) = Len(s) - 1 /\ Len(s) >= 1
      /\ Head(s) = s[1] /\ 1 \in DOMAIN s /\ s[1] \in Act
  OBVIOUS
<1>2. \A i \in DOMAIN Tail(s) : i + 1 \in DOMAIN s /\ Tail(s)[i] = s[i + 1]
  BY <1>1
<1>3. Distinct(Tail(s))
  BY <1>1, <1>2 DEF Distinct
<1>4. Head(s).id \in Ids(s, Head(s).do)
  BY <1>1, IdsIn
<1>5. ASSUME NEW d, NEW x \in Ids(Tail(s), d)
      PROVE  x \in Ids(s, d) /\ ~(Head(s).do = d /\ x = Head(s).id)
  <2>1. PICK i \in DOMAIN Tail(s) : Tail(s)[i].do = d /\ Tail(s)[i].id = x
    BY <1>5 DEF Ids
  <2>2. i + 1 \in DOMAIN s /\ s[i + 1].do = d /\ s[i + 1].id = x /\ s[i + 1] \in Act
    BY <1>2, <2>1
  <2>3. s[1] # s[i + 1]
    BY <1>1, <2>1, <2>2 DEF Distinct
  <2>4. ~(s[1].do = d /\ s[1].id = x)
    BY <1>1, <2>2, <2>3 DEF Act
  <2> QED BY <1>1, <2>2, <2>4, IdsIn
<1>6. ASSUME NEW d, NEW x \in Ids(s, d), ~(Head(s).do = d /\ x = Head(s).id)
      PROVE  x \in Ids(Tail(s), d)
  <2>1. PICK i \in DOMAIN s : s[i].do = d /\ s[i].id = x
    BY <1>6, IdsIn
  <2>2. i # 1
    BY <1>1, <1>6, <2>1
  <2>3. i - 1 \in DOMAIN Tail(s) /\ Tail(s)[i - 1] = s[i]
    BY <1>1, <2>1, <2>2
  <2> QED BY ZenonT(90), <2>1, <2>3, IdsIn
<1> QED BY <1>1, <1>3, <1>4, <1>5, <1>6

-----------------------------------------------------------------------------
(* The state of the tables and the engine, with the actions P that wait.   *)
(* rest is the set of exchanges that a socket or a waiting send stands     *)
(* for: all of them, except while one of them is being ended.              *)
Tied(own, wait, nxt, sock, wtr, P, rest) ==
    /\ nxt \in Nat
    /\ DOMAIN own \subseteq 0..(nxt - 1)
    /\ \A x \in DOMAIN own : own[x].qid \in Qid
    /\ wait = {own[x].qid : x \in DOMAIN own}
    /\ sock \subseteq 0..(nxt - 1)
    /\ P \in Seq(Act) /\ Distinct(P)
    /\ Ids(P, "cancel") \subseteq 0..(nxt - 1)
    /\ rest = (sock \ Ids(P, "cancel")) \cup Ids(P, "send")
    /\ Ids(P, "send") \cap sock = {}
    /\ Ids(P, "cancel") \cap rest = {}
    /\ wtr = wait \cup Ids(P, "done")
    /\ wait \cap Ids(P, "done") = {}

Sound(own, wait, nxt, sock, wtr, P) == Tied(own, wait, nxt, sock, wtr, P, DOMAIN own)

Loose(own, wait, nxt, sock, wtr, P, x) ==
    x \in DOMAIN own /\ Tied(own, wait, nxt, sock, wtr, P, DOMAIN own \ {x})

(* The inductive invariant of the daemon. *)
DaemonInv ==
    /\ Sound(owner, waiting, next, sockets, waiters, Pend)
    /\ todo \in Seq(Act) /\ follow \in Seq(Act)
    /\ mark \in Nat /\ mark <= next
    /\ phase = "tick" => follow = <<>> /\ \A x \in Ids(Pend, "send") : x >= mark
    /\ phase = "poll" => Idle
    /\ clients \cap waiters = {}
    /\ clients \cup waiters \subseteq seen
    /\ unserved = clients \cup waiters

-----------------------------------------------------------------------------
(* The end of an exchange *)

(* What the engine does when x is over. *)
LEMMA EndsEffect ==
    ASSUME NEW x \in DOMAIN owner, NEW o \in After, Ends(x, o), next \in Nat,
           DOMAIN owner \subseteq 0..(next - 1)
    PROVE  /\ DOMAIN owner' = (DOMAIN owner \ {x}) \cup (IF o = <<>> THEN {} ELSE {next})
           /\ \A y \in DOMAIN owner \ {x} : owner'[y] = owner[y]
           /\ o # <<>> => owner'[next].qid = owner[x].qid /\ waiting' = waiting
           /\ o = <<>> => waiting' = IF ExchangesOf(owner[x].qid) = {x}
                                     THEN waiting \ {owner[x].qid} ELSE waiting
           /\ next' = IF o = <<>> THEN next ELSE next + 1
<1>1. CASE o = <<>>
  BY <1>1 DEF Ends, over, Restrict
<1>2. CASE o # <<>>
  <2>1. retry(x, o[1]) /\ x # next
    BY <1>2 DEF Ends
  <2> QED BY <1>2, <2>1 DEF retry
<1> QED BY <1>1, <1>2

(* The questions that wait are then those of the exchanges that are left,  *)
(* and a question is done exactly when none is.                            *)
LEMMA EndsWaiting ==
    ASSUME NEW x \in DOMAIN owner, NEW o \in After, Ends(x, o), next \in Nat,
           DOMAIN owner \subseteq 0..(next - 1),
           waiting = {owner[y].qid : y \in DOMAIN owner}
    PROVE  /\ waiting' = {owner'[y].qid : y \in DOMAIN owner'}
           /\ waiting' = waiting \ (IF o = <<>> /\ ExchangesOf(owner[x].qid) = {x}
                                     THEN {owner[x].qid} ELSE {})
<1> DEFINE q == owner[x].qid
<1>1. /\ DOMAIN owner' = (DOMAIN owner \ {x}) \cup (IF o = <<>> THEN {} ELSE {next})
      /\ \A y \in DOMAIN owner \ {x} : owner'[y] = owner[y]
      /\ o # <<>> => owner'[next].qid = q /\ waiting' = waiting
      /\ o = <<>> => waiting' = IF ExchangesOf(q) = {x} THEN waiting \ {q} ELSE waiting
  BY Zenon, EndsEffect
<1>2. q \in waiting /\ x \in ExchangesOf(q)
  BY DEF ExchangesOf
<1>3. CASE o # <<>>
  <2>1. \A w : w \in {owner'[y].qid : y \in DOMAIN owner'} <=> w \in {owner[y].qid : y \in DOMAIN owner}
    BY <1>1, <1>3
  <2> QED BY <1>1, <1>3, <2>1
<1>4. CASE o = <<>> /\ ExchangesOf(q) = {x}
  <2>1. \A y \in DOMAIN owner : owner[y].qid = q => y = x
    BY <1>4 DEF ExchangesOf
  <2>2. \A w : w \in {owner'[y].qid : y \in DOMAIN owner'} <=> w \in waiting /\ w # q
    BY <1>1, <1>4, <2>1
  <2> QED BY Zenon, <1>1, <1>4, <2>2
<1>5. CASE o = <<>> /\ ExchangesOf(q) # {x}
  <2>1. PICK z \in DOMAIN owner : z # x /\ owner[z].qid = q
    BY <1>2, <1>5 DEF ExchangesOf
  <2>2. \A w : w \in {owner'[y].qid : y \in DOMAIN owner'} <=> w \in waiting
    BY SMTT(30), <1>1, <1>5, <2>1
  <2> QED BY Zenon, <1>1, <1>5, <2>2
<1> QED BY <1>3, <1>4, <1>5

(* The actions it asks for. *)
LEMMA AskedIds ==
    ASSUME NEW x \in DOMAIN owner, NEW o \in After, next \in Nat, owner[x].qid \in Qid
    PROVE  /\ Asked(x, o) \in Seq(Act) /\ Distinct(Asked(x, o))
           /\ Ids(Asked(x, o), "send") = IF o = <<>> THEN {} ELSE {next}
           /\ Ids(Asked(x, o), "cancel") = {}
           /\ Ids(Asked(x, o), "done") = IF o = <<>> /\ ExchangesOf(owner[x].qid) = {x}
                                         THEN {owner[x].qid} ELSE {}
<1>1. Send(next) \in Act /\ Done(owner[x].qid) \in Act
  BY DEF Send, Done, Act, Kind
<1>2. CASE o # <<>>
  <2>1. Asked(x, o) = <<Send(next)>>
    BY <1>2 DEF Asked
  <2>2. /\ \A d : Ids(<<Send(next)>>, d) = IF Send(next).do = d THEN {Send(next).id} ELSE {}
        /\ Distinct(<<Send(next)>>) /\ <<Send(next)>> \in Seq(Act)
    BY <1>1, OneId
  <2>3. Send(next).do = "send" /\ Send(next).id = next
    BY DEF Send
  <2>4. /\ Ids(<<Send(next)>>, "send") = {next}
        /\ Ids(<<Send(next)>>, "cancel") = {} /\ Ids(<<Send(next)>>, "done") = {}
    BY <2>2, <2>3
  <2> QED BY <1>2, <2>1, <2>2, <2>4
<1>3. CASE o = <<>> /\ ExchangesOf(owner[x].qid) = {x}
  <2>1. Asked(x, o) = <<Done(owner[x].qid)>>
    BY <1>3 DEF Asked
  <2> DEFINE a == Done(owner[x].qid)
  <2>2. /\ \A d : Ids(<<a>>, d) = IF a.do = d THEN {a.id} ELSE {}
        /\ Distinct(<<a>>) /\ <<a>> \in Seq(Act)
    BY <1>1, OneId
  <2>3. a.do = "done" /\ a.id = owner[x].qid
    BY DEF Done
  <2>4. Ids(<<a>>, "done") = {owner[x].qid} /\ Ids(<<a>>, "cancel") = {} /\ Ids(<<a>>, "send") = {}
    BY <2>2, <2>3
  <2> QED BY Zenon, <1>3, <2>1, <2>2, <2>4
<1>4. CASE o = <<>> /\ ExchangesOf(owner[x].qid) # {x}
  <2>1. Asked(x, o) = <<>>
    BY <1>4 DEF Asked
  <2> QED BY Zenon, <1>4, <2>1, EmptyIds
<1> QED BY <1>2, <1>3, <1>4

(* A loose exchange is tied up by its end and what that asks for. *)
LEMMA EndsTies ==
    ASSUME NEW x, NEW o \in After, NEW sock, NEW wtr, NEW P,
           Loose(owner, waiting, next, sock, wtr, P, x), Ends(x, o)
    PROVE  Sound(owner', waiting', next', sock, wtr, P \o Asked(x, o))
<1> DEFINE N == Asked(x, o)
           D == IF o = <<>> /\ ExchangesOf(owner[x].qid) = {x} THEN {owner[x].qid} ELSE {}
           F == IF o = <<>> THEN {} ELSE {next}
<1>1. /\ x \in DOMAIN owner /\ next \in Nat /\ DOMAIN owner \subseteq 0..(next - 1)
      /\ \A y \in DOMAIN owner : owner[y].qid \in Qid
      /\ waiting = {owner[y].qid : y \in DOMAIN owner}
      /\ sock \subseteq 0..(next - 1)
      /\ P \in Seq(Act) /\ Distinct(P)
      /\ Ids(P, "cancel") \subseteq 0..(next - 1)
      /\ DOMAIN owner \ {x} = (sock \ Ids(P, "cancel")) \cup Ids(P, "send")
      /\ Ids(P, "send") \cap sock = {}
      /\ Ids(P, "cancel") \cap (DOMAIN owner \ {x}) = {}
      /\ wtr = waiting \cup Ids(P, "done")
      /\ waiting \cap Ids(P, "done") = {}
  BY DEF Loose, Tied
<1>2. /\ N \in Seq(Act) /\ Distinct(N) /\ Ids(N, "send") = F /\ Ids(N, "cancel") = {}
      /\ Ids(N, "done") = D
  BY Zenon, <1>1, AskedIds
<1>3. /\ DOMAIN owner' = (DOMAIN owner \ {x}) \cup F
      /\ \A y \in DOMAIN owner \ {x} : owner'[y] = owner[y]
      /\ o # <<>> => owner'[next].qid = owner[x].qid
      /\ next' = IF o = <<>> THEN next ELSE next + 1
  BY Zenon, <1>1, EndsEffect
<1>4. /\ waiting' = {owner'[y].qid : y \in DOMAIN owner'}
      /\ waiting' = waiting \ D
  BY Zenon, <1>1, EndsWaiting
<1>5. D \subseteq waiting
  BY SMTT(30), <1>1
<1> HIDE DEF N, D
<1>15. P \o N \in Seq(Act) /\ \A d : Ids(P \o N, d) = Ids(P, d) \cup Ids(N, d)
  BY <1>1, <1>2, ConcatIds
<1> HIDE DEF F
<1>6. /\ P \o N \in Seq(Act)
      /\ Ids(P \o N, "send") = Ids(P, "send") \cup F
      /\ Ids(P \o N, "cancel") = Ids(P, "cancel")
      /\ Ids(P \o N, "done") = Ids(P, "done") \cup D
  BY Zenon, <1>2, <1>15
<1> USE DEF F
<1>7. next \notin Ids(P, "send") /\ next \notin sock /\ next \notin Ids(P, "cancel")
  BY SMTT(30), <1>1
<1>8. Distinct(P \o N)
  <2>1. \A d \in Kind : Ids(P, d) \cap Ids(N, d) = {}
    BY SMTT(30), <1>1, <1>2, <1>5, <1>7 DEF Kind
  <2> QED BY SMTT(30), <1>1, <1>2, <2>1, ConcatDistinct
<1>9. next' \in Nat /\ 0..(next - 1) \subseteq 0..(next' - 1) /\ F \subseteq 0..(next' - 1)
  BY SMTT(30), <1>1, <1>3
<1>10. \A y \in DOMAIN owner' : owner'[y].qid \in Qid
  BY SMTT(30), <1>1, <1>3
<1>11. DOMAIN owner' \subseteq 0..(next' - 1)
  BY SMTT(30), <1>1, <1>3, <1>9
<1>12. /\ DOMAIN owner' = (sock \ Ids(P \o N, "cancel")) \cup Ids(P \o N, "send")
       /\ Ids(P \o N, "send") \cap sock = {}
       /\ Ids(P \o N, "cancel") \cap DOMAIN owner' = {}
  BY SMTT(30), <1>1, <1>3, <1>6, <1>7
<1>13. /\ wtr = waiting' \cup Ids(P \o N, "done")
       /\ waiting' \cap Ids(P \o N, "done") = {}
  BY ZenonT(40), <1>1, <1>4, <1>5, <1>6
<1>14. sock \subseteq 0..(next' - 1) /\ Ids(P \o N, "cancel") \subseteq 0..(next' - 1)
  BY Zenon, <1>1, <1>6, <1>9
<1> QED BY Zenon, <1>4, <1>6, <1>8, <1>9, <1>10, <1>11, <1>12, <1>13, <1>14 DEF Sound, Tied, N

(* How an exchange comes loose: its send failed, its socket was closed, or *)
(* it is late and its socket is to be cancelled.                           *)
LEMMA FailedSendLoose ==
    ASSUME NEW P, NEW sock, NEW wtr, P # <<>>, Head(P).do = "send",
           Sound(owner, waiting, next, sock, wtr, P)
    PROVE  Loose(owner, waiting, next, sock, wtr, Tail(P), Head(P).id)
<1> DEFINE x == Head(P).id
<1>1. P \in Seq(Act) /\ Distinct(P)
  BY DEF Sound, Tied
<1>2. /\ Tail(P) \in Seq(Act) /\ Distinct(Tail(P)) /\ x \in Ids(P, "send")
      /\ \A d : Ids(Tail(P), d) = Ids(P, d) \ (IF Head(P).do = d THEN {x} ELSE {})
  BY <1>1, TailIds
<1>3. /\ Ids(Tail(P), "send") = Ids(P, "send") \ {x}
      /\ Ids(Tail(P), "cancel") = Ids(P, "cancel") /\ Ids(Tail(P), "done") = Ids(P, "done")
  BY Zenon, <1>2
<1> HIDE DEF x
<1>4. x \in DOMAIN owner /\ x \notin sock
  BY <1>2 DEF Sound, Tied
<1> QED BY <1>2, <1>3, <1>4 DEF Sound, Loose, Tied, x

(* The socket was closed after a reply or an error. *)
LEMMA ClosedLoose ==
    ASSUME NEW wtr, NEW sock, NEW x \in sock, Sound(owner, waiting, next, sock, wtr, <<>>)
    PROVE  Loose(owner, waiting, next, sock \ {x}, wtr, <<>>, x)
<1>1. Ids(<<>>, "send") = {} /\ Ids(<<>>, "cancel") = {} /\ Ids(<<>>, "done") = {}
  BY SMTT(30), EmptyIds
<1> QED BY <1>1 DEF Sound, Loose, Tied

(* The exchange is late. *)
LEMMA LateLoose ==
    ASSUME NEW P, NEW wtr, NEW sock, NEW x \in DOMAIN owner, x \notin Ids(P, "send"),
           Sound(owner, waiting, next, sock, wtr, P)
    PROVE  Loose(owner, waiting, next, sock, wtr, P \o <<Cancel(x)>>, x)
<1> DEFINE N == <<Cancel(x)>>
<1>1. /\ P \in Seq(Act) /\ Distinct(P) /\ x \in Nat /\ x \in 0..(next - 1)
      /\ x \notin Ids(P, "cancel") /\ next \in Nat
  BY DEF Sound, Tied
<1>2. Cancel(x) \in Act /\ Cancel(x).do = "cancel" /\ Cancel(x).id = x
  BY <1>1 DEF Cancel, Act, Kind
<1>3. /\ N \in Seq(Act) /\ Distinct(N)
      /\ \A d : Ids(N, d) = IF Cancel(x).do = d THEN {Cancel(x).id} ELSE {}
  BY SMTT(30), <1>2, OneId
<1>4. Ids(N, "cancel") = {x} /\ Ids(N, "send") = {} /\ Ids(N, "done") = {}
  BY <1>2, <1>3
<1> HIDE DEF N
<1>5. P \o N \in Seq(Act) /\ \A d : Ids(P \o N, d) = Ids(P, d) \cup Ids(N, d)
  BY <1>1, <1>3, ConcatIds
<1>6. /\ Ids(P \o N, "cancel") = Ids(P, "cancel") \cup {x}
      /\ Ids(P \o N, "send") = Ids(P, "send") /\ Ids(P \o N, "done") = Ids(P, "done")
  BY Zenon, <1>4, <1>5
<1>7. \A d \in Kind : Ids(P, d) \cap Ids(N, d) = {}
  BY <1>1, <1>4 DEF Kind
<1>8. Distinct(P \o N)
  BY <1>1, <1>3, <1>7, ConcatDistinct
<1>9. DOMAIN owner \ {x} = (sock \ Ids(P \o N, "cancel")) \cup Ids(P \o N, "send")
  BY <1>6 DEF Sound, Tied
<1> QED BY SMTT(30), <1>1, <1>5, <1>6, <1>8, <1>9 DEF Sound, Loose, Tied, N

(* A socket is opened, or closed. *)
LEMMA SentSound ==
    ASSUME NEW P, NEW wtr, NEW sock, P # <<>>, Head(P).do = "send",
           Sound(owner, waiting, next, sock, wtr, P)
    PROVE  Sound(owner, waiting, next, sock \cup {Head(P).id}, wtr, Tail(P))
<1> DEFINE x == Head(P).id
<1>1. P \in Seq(Act) /\ Distinct(P)
  BY DEF Sound, Tied
<1>2. /\ Tail(P) \in Seq(Act) /\ Distinct(Tail(P)) /\ x \in Ids(P, "send")
      /\ \A d : Ids(Tail(P), d) = Ids(P, d) \ (IF Head(P).do = d THEN {x} ELSE {})
  BY <1>1, TailIds
<1>3. /\ Ids(Tail(P), "send") = Ids(P, "send") \ {x}
      /\ Ids(Tail(P), "cancel") = Ids(P, "cancel") /\ Ids(Tail(P), "done") = Ids(P, "done")
  <2> HIDE DEF x
  <2>1. Ids(Tail(P), "send") = Ids(P, "send") \ {x}
    BY ZenonT(40), <1>2
  <2>2. /\ Ids(Tail(P), "cancel") = Ids(P, "cancel") \ {}
        /\ Ids(Tail(P), "done") = Ids(P, "done") \ {}
    BY ZenonT(40), <1>2
  <2> QED BY ZenonT(40), <2>1, <2>2
<1> HIDE DEF x
<1>4. x \in DOMAIN owner
  BY <1>2 DEF Sound, Tied
<1> QED BY Zenon, <1>2, <1>3, <1>4 DEF Sound, Tied, x

(* The first action is a cancel: the socket goes. *)
LEMMA CancelledSound ==
    ASSUME NEW P, NEW wtr, NEW sock, P # <<>>, Head(P).do = "cancel",
           Sound(owner, waiting, next, sock, wtr, P)
    PROVE  Sound(owner, waiting, next, sock \ {Head(P).id}, wtr, Tail(P))
<1> DEFINE x == Head(P).id
<1>1. P \in Seq(Act) /\ Distinct(P)
  BY DEF Sound, Tied
<1>2. /\ Tail(P) \in Seq(Act) /\ Distinct(Tail(P)) /\ x \in Ids(P, "cancel")
      /\ \A d : Ids(Tail(P), d) = Ids(P, d) \ (IF Head(P).do = d THEN {x} ELSE {})
  BY <1>1, TailIds
<1>3. /\ Ids(Tail(P), "cancel") = Ids(P, "cancel") \ {x}
      /\ Ids(Tail(P), "send") = Ids(P, "send") /\ Ids(Tail(P), "done") = Ids(P, "done")
  BY Zenon, <1>2
<1> HIDE DEF x
<1> QED BY <1>2, <1>3 DEF Sound, Tied, x

(* An asker gets its answer. *)
LEMMA DeliveredSound ==
    ASSUME NEW P, NEW wtr, NEW sock, P # <<>>, Head(P).do = "done",
           Sound(owner, waiting, next, sock, wtr, P)
    PROVE  /\ Sound(owner, waiting, next, sock, wtr \ {Head(P).id}, Tail(P))
           /\ Head(P).id \in wtr
<1> DEFINE x == Head(P).id
<1>1. P \in Seq(Act) /\ Distinct(P)
  BY DEF Sound, Tied
<1>2. /\ Tail(P) \in Seq(Act) /\ Distinct(Tail(P)) /\ x \in Ids(P, "done")
      /\ \A d : Ids(Tail(P), d) = Ids(P, d) \ (IF Head(P).do = d THEN {x} ELSE {})
  BY <1>1, TailIds
<1>3. /\ Ids(Tail(P), "done") = Ids(P, "done") \ {x}
      /\ Ids(Tail(P), "send") = Ids(P, "send") /\ Ids(Tail(P), "cancel") = Ids(P, "cancel")
  BY Zenon, <1>2
<1> HIDE DEF x
<1> QED BY <1>2, <1>3 DEF Sound, Tied, x

-----------------------------------------------------------------------------
(* Questions *)

(* Ids are never reused, so bounds only grow. *)
LEMMA IdsGrow ==
    ASSUME NEW a \in Nat, NEW b \in Nat, a <= b
    PROVE  0..(a - 1) \subseteq 0..(b - 1) /\ a..(b - 1) \subseteq 0..(b - 1)
OBVIOUS

(* A question starts with a short list of exchanges. *)
LEMMA FuelsAre ==
    ASSUME NEW fuels \in Starts
    PROVE  Len(fuels) \in Nat /\ DOMAIN fuels = 1..Len(fuels) /\ (fuels # <<>> => Len(fuels) > 0)
<1>1. fuels = <<>> \/ (\E f : fuels = <<f>>) \/ (\E f, g : fuels = <<f, g>>)
  BY DaemonConstants DEF Fuels
<1> QED BY <1>1

(* A new question and the actions it leads to. *)
LEMMA PutSound ==
    ASSUME NEW q \in Qid, NEW fuels \in Starts, Put(q, fuels), q \notin waiters,
           Sound(owner, waiting, next, sockets, waiters, <<>>)
    PROVE  /\ Sound(owner', waiting', next', sockets, waiters', todo')
           /\ next' >= next /\ waiters' = waiters \cup {q}
<1> DEFINE n == Len(fuels)
           first == next + n
           new == first..(first + n - 1)
<1>1. /\ next \in Nat /\ DOMAIN owner \subseteq 0..(next - 1)
      /\ \A x \in DOMAIN owner : owner[x].qid \in Qid
      /\ waiting = {owner[x].qid : x \in DOMAIN owner}
      /\ DOMAIN owner = sockets /\ waiters = waiting
  BY EmptyIds DEF Sound, Tied
<1>2. n \in Nat /\ DOMAIN fuels = 1..n /\ (fuels # <<>> => n > 0)
  BY SMTT(30), FuelsAre
<1>3. /\ owner' = [x \in DOMAIN owner \cup new |->
                      IF x \in new THEN [qid |-> q, fuel |-> fuels[x - first + 1]] ELSE owner[x]]
      /\ waiting' = IF fuels = <<>> THEN waiting ELSE waiting \cup {q}
      /\ next' = first + n
      /\ waiters' = waiters \cup {q}
      /\ todo' = IF fuels = <<>> THEN <<Done(q)>>
                 ELSE [i \in DOMAIN fuels |-> Send(first + i - 1)]
  BY SMTT(30) DEF Put, ask
<1>4. first \in Nat /\ next' \in Nat /\ next' >= next /\ new \subseteq next..(next' - 1)
  BY SMTT(30), <1>1, <1>2, <1>3
<1>5. /\ DOMAIN owner' = DOMAIN owner \cup new
      /\ \A x \in DOMAIN owner : owner'[x] = owner[x]
      /\ \A x \in new : owner'[x].qid = q
  <2>1. \A x \in DOMAIN owner : x \notin new
    BY <1>1, <1>4
  <2> HIDE DEF new, first, n
  <2> QED BY SMTT(30), <1>3, <2>1
<1>6. CASE fuels = <<>>
  <2>1. n = 0 /\ new = {} /\ todo' = <<Done(q)>> /\ waiting' = waiting
    BY SMTT(30), <1>1, <1>2, <1>3, <1>6
  <2>2. Done(q) \in Act /\ Done(q).do = "done" /\ Done(q).id = q
    BY DEF Done, Act, Kind
  <2>3. /\ <<Done(q)>> \in Seq(Act) /\ Distinct(<<Done(q)>>)
        /\ \A d : Ids(<<Done(q)>>, d) = IF Done(q).do = d THEN {Done(q).id} ELSE {}
    BY <2>2, OneId
  <2>4. Ids(todo', "done") = {q} /\ Ids(todo', "send") = {} /\ Ids(todo', "cancel") = {}
    BY Zenon, <2>1, <2>2, <2>3
  <2>5. DOMAIN owner' = DOMAIN owner /\ \A x \in DOMAIN owner : owner'[x] = owner[x]
    BY Zenon, <1>5, <2>1
  <2>6. waiting' = {owner'[x].qid : x \in DOMAIN owner'}
    BY <1>1, <2>1, <2>5
  <2>7. 0..(next - 1) \subseteq 0..(next' - 1)
    <3> HIDE DEF n, first, new
    <3>1. next \in Nat /\ next' \in Nat /\ next <= next'
      BY SMTT(30), <1>1, <1>4
    <3> QED BY ZenonT(90), <3>1, IdsGrow
  <2> HIDE DEF n, first, new
  <2>8. /\ DOMAIN owner' = (sockets \ Ids(todo', "cancel")) \cup Ids(todo', "send")
        /\ Ids(todo', "send") \cap sockets = {}
        /\ Ids(todo', "cancel") \cap DOMAIN owner' = {}
    BY SMTT(30), <1>1, <2>4, <2>5
  <2>9. /\ DOMAIN owner' \subseteq 0..(next' - 1) /\ sockets \subseteq 0..(next' - 1)
        /\ Ids(todo', "cancel") \subseteq 0..(next' - 1)
    BY SMTT(30), <1>1, <2>4, <2>5, <2>7
  <2>10. waiters' = waiting' \cup Ids(todo', "done") /\ waiting' \cap Ids(todo', "done") = {}
    BY Zenon, <1>1, <1>3, <2>1, <2>4
  <2>11. \A x \in DOMAIN owner' : owner'[x].qid \in Qid
    BY <1>1, <2>5
  <2>12. todo' \in Seq(Act) /\ Distinct(todo')
    BY <2>1, <2>3
  <2>13. Sound(owner', waiting', next', sockets, waiters', todo')
    BY Zenon, <1>4, <2>6, <2>8, <2>9, <2>10, <2>11, <2>12 DEF Sound, Tied
  <2> QED BY Zenon, <1>3, <1>4, <2>13
<1>7. CASE fuels # <<>>
  <2>1. /\ n > 0 /\ todo' = [i \in 1..n |-> Send(first + i - 1)] /\ waiting' = waiting \cup {q}
    BY SMTT(30), <1>2, <1>3, <1>7
  <2>2. \A i \in 1..n : /\ Send(first + i - 1) \in Act /\ Send(first + i - 1).do = "send"
                        /\ Send(first + i - 1).id = first + i - 1
    BY SMTT(30), <1>2, <1>4 DEF Send, Act, Kind
  <2>3. todo' \in Seq(Act) /\ DOMAIN todo' = 1..n
    BY SMTT(30), <1>2, <2>1, <2>2
  <2>4. \A i \in DOMAIN todo' : todo'[i].do = "send" /\ todo'[i].id = first + i - 1
    BY SMTT(30), <2>1, <2>2, <2>3
  <2>5. Distinct(todo')
    BY SMTT(30), <1>2, <1>4, <2>3, <2>4 DEF Distinct
  <2>6. Ids(todo', "done") = {} /\ Ids(todo', "cancel") = {}
    BY <2>4 DEF Ids
  <2>7. Ids(todo', "send") = new
    <3>1. \A x : x \in Ids(todo', "send") <=> \E i \in 1..n : x = first + i - 1
      BY SMTT(30), <2>3, <2>4 DEF Ids
    <3>2. \A x \in new : x - first + 1 \in 1..n /\ x = first + (x - first + 1) - 1
      BY SMTT(30), <1>2, <1>4
    <3>3. \A i \in 1..n : first + i - 1 \in new
      BY <1>2, <1>4
    <3> HIDE DEF new, first, n
    <3>4. \A x \in new : x \in Ids(todo', "send")
      BY <3>1, <3>2
    <3>5. \A x \in Ids(todo', "send") : x \in new
      BY <3>1, <3>3
    <3> QED BY Zenon, <3>4, <3>5
  <2>8. new # {}
    <3>1. first \in new
      BY SMTT(30), <1>2, <1>4, <2>1
    <3> QED BY <3>1
  <2> HIDE DEF n, first, new
  <2>9. waiting' = {owner'[x].qid : x \in DOMAIN owner'}
    BY SMTT(30), <1>1, <1>5, <2>1, <2>8
  <2>10. 0..(next - 1) \subseteq 0..(next' - 1) /\ new \subseteq 0..(next' - 1)
    <3>1. next \in Nat /\ next' \in Nat /\ next <= next'
      BY <1>1, <1>4
    <3> QED BY Zenon, <1>4, <3>1, IdsGrow
  <2>11. new \cap sockets = {}
    <3>1. \A x \in new : x >= next
      BY SMTT(30), <1>1, <1>2, <1>4 DEF new, first
    <3>2. \A x \in sockets : x \in Nat /\ x < next
      BY <1>1
    <3>3. next \in Nat
      BY SMTT(30), <1>1
    <3> QED BY SMTT(30), <3>1, <3>2, <3>3
  <2>12. \A x \in DOMAIN owner' : owner'[x].qid \in Qid
    BY <1>1, <1>5
  <2> QED BY Zenon, <1>1, <1>3, <1>4, <1>5, <2>1, <2>3, <2>5, <2>6, <2>7, <2>9, <2>10, <2>11, <2>12
          DEF Sound, Tied
<1> QED BY SMTT(30), <1>3, <1>4, <1>6, <1>7

(* A function on 1..n is a sequence. *)
LEMMA FunctionIsSeq ==
    ASSUME NEW S, NEW n \in Nat, NEW s \in [1..n -> S]
    PROVE  s \in Seq(S)
OBVIOUS

(* A question is abandoned: its exchanges are forgotten, their sockets to  *)
(* be cancelled.                                                           *)
LEMMA HangupSound ==
    ASSUME NEW q \in waiters, abandon(q), Sound(owner, waiting, next, sockets, waiters, <<>>),
           NEW f \in Bijection(1..Cardinality(ExchangesOf(q)), ExchangesOf(q)),
           NEW T, T = [i \in DOMAIN f |-> Cancel(f[i])]
    PROVE  Sound(owner', waiting', next', sockets, waiters \ {q}, T) /\ next' = next
<1> DEFINE X == ExchangesOf(q)
           n == Cardinality(X)
<1>1. /\ next \in Nat /\ DOMAIN owner \subseteq 0..(next - 1)
      /\ \A x \in DOMAIN owner : owner[x].qid \in Qid
      /\ waiting = {owner[x].qid : x \in DOMAIN owner}
      /\ DOMAIN owner = sockets /\ waiters = waiting
  BY EmptyIds DEF Sound, Tied
<1>2. X = {x \in DOMAIN owner : owner[x].qid = q} /\ X \subseteq DOMAIN owner
  BY DEF ExchangesOf
<1>3. IsFiniteSet(X)
  <2>1. IsFiniteSet(0..(next - 1))
    BY SMTT(30), <1>1, FS_Interval
  <2>2. X \in SUBSET (0..(next - 1))
    BY <1>1, <1>2
  <2> QED BY Zenon, <2>1, <2>2, FS_Subset
<1>4. /\ f \in [1..n -> X] /\ n \in Nat
      /\ \A i, j \in 1..n : i # j => f[i] # f[j]
      /\ \A x \in X : \E i \in 1..n : f[i] = x
  <2>1. n \in Nat
    BY ZenonT(40), <1>3, FS_CardinalityType
  <2>2. f \in Injection(1..n, X) /\ f \in Surjection(1..n, X)
    BY ZenonT(40) DEF Bijection
  <2> QED BY ZenonT(40), <2>1, <2>2 DEF Injection, Surjection, IsInjective
<1>5. /\ DOMAIN owner' = DOMAIN owner \ X
      /\ \A x \in DOMAIN owner' : owner'[x] = owner[x]
      /\ waiting' = waiting \ {q} /\ next' = next
  BY SMTT(30) DEF abandon, Restrict
<1>7. X \subseteq Nat
  BY <1>1, <1>2
<1> HIDE DEF n, X
<1>8. f \in [1..n -> X] /\ n \in Nat
  BY ZenonT(40), <1>4
<1>9. \A i \in 1..n : Cancel(f[i]) \in Act /\ Cancel(f[i]).do = "cancel" /\ Cancel(f[i]).id = f[i]
  BY Zenon, <1>7, <1>8 DEF Cancel, Act, Kind
<1>10. T = [i \in 1..n |-> Cancel(f[i])]
  BY ZenonT(40), <1>8
<1>23. \A i \in 1..n : Cancel(f[i]) \in Act
  BY <1>9
<1>24. n \in Nat
  BY <1>8
<1>25. DOMAIN T = 1..n
  BY <1>10
<1>11. T \in Seq(Act) /\ DOMAIN T = 1..n
  <2> DEFINE c(i) == Cancel(f[i])
  <2>1. \A i \in 1..n : c(i) \in Act
    BY <1>23
  <2>2. T = [i \in 1..n |-> c(i)]
    BY Zenon, <1>10
  <2> HIDE DEF c
  <2>3. T \in [1..n -> Act]
    BY Zenon, <2>1, <2>2
  <2> QED BY Zenon, <1>24, <1>25, <2>3, FunctionIsSeq
<1>12. \A i \in DOMAIN T : T[i].do = "cancel" /\ T[i].id = f[i]
  BY Zenon, <1>9, <1>10, <1>11
<1>13. \A i, j \in 1..n : i # j => f[i] # f[j]
  BY SMTT(30), <1>4
<1>14. Distinct(T)
  <2> SUFFICES ASSUME NEW i \in 1..n, NEW j \in 1..n, i # j PROVE T[i] # T[j]
    BY ZenonT(90), <1>25 DEF Distinct
  <2>1. T[i].id = f[i] /\ T[j].id = f[j]
    BY Zenon, <1>12, <1>25
  <2>2. f[i] # f[j]
    BY <1>13
  <2> QED BY <2>1, <2>2
<1>15. Ids(T, "send") = {} /\ Ids(T, "done") = {}
  BY <1>12 DEF Ids
<1>16. Ids(T, "cancel") = X
  <2>1. \A x : x \in Ids(T, "cancel") <=> \E i \in 1..n : x = f[i]
    BY ZenonT(90), <1>11, <1>12 DEF Ids
  <2>2. \A x \in X : x \in Ids(T, "cancel")
    BY <1>4, <2>1
  <2>3. \A x \in Ids(T, "cancel") : x \in X
    BY <1>8, <2>1
  <2> QED BY Zenon, <2>2, <2>3
<1>17. waiting' = {owner'[x].qid : x \in DOMAIN owner'}
  BY SMTT(30), <1>1, <1>2, <1>5
<1>18. /\ DOMAIN owner' = (sockets \ Ids(T, "cancel")) \cup Ids(T, "send")
       /\ Ids(T, "send") \cap sockets = {}
       /\ Ids(T, "cancel") \cap DOMAIN owner' = {}
       /\ Ids(T, "cancel") \subseteq 0..(next' - 1) /\ sockets \subseteq 0..(next' - 1)
       /\ DOMAIN owner' \subseteq 0..(next' - 1)
  BY ZenonT(40), <1>1, <1>2, <1>5, <1>15, <1>16
<1>19. waiters \ {q} = waiting' \cup Ids(T, "done") /\ waiting' \cap Ids(T, "done") = {}
  BY ZenonT(40), <1>1, <1>5, <1>15
<1>20. \A x \in DOMAIN owner' : owner'[x].qid \in Qid
  BY <1>1, <1>5
<1>21. next' \in Nat
  BY Zenon, <1>1, <1>5
<1>22. Sound(owner', waiting', next', sockets, waiters \ {q}, T)
  BY Zenon, <1>11, <1>14, <1>17, <1>18, <1>19, <1>20, <1>21 DEF Sound, Tied
<1> QED BY SMTT(30), <1>5, <1>22

-----------------------------------------------------------------------------
(* The steps of the loop *)

(* Concatenation is associative. *)
LEMMA JoinedTwice ==
    ASSUME NEW s \in Seq(Act), NEW t \in Seq(Act), NEW u \in Seq(Act)
    PROVE  (s \o t) \o u = s \o (t \o u)
BY SMTT(30)

(* Joining lists, seen from their first action. *)
LEMMA Joined ==
    ASSUME NEW s \in Seq(Act), NEW t \in Seq(Act)
    PROVE  /\ <<>> \o s = s /\ s \o <<>> = s
           /\ s # <<>> => /\ s \o t # <<>> /\ Head(s \o t) = Head(s)
                          /\ Tail(s \o t) = Tail(s) \o t /\ Tail(s) \in Seq(Act)
<1>2. <<>> \o s = s /\ s \o <<>> = s
  OBVIOUS
<1>3. ASSUME s # <<>>
      PROVE  /\ s \o t # <<>> /\ Head(s \o t) = Head(s)
             /\ Tail(s \o t) = Tail(s) \o t /\ Tail(s) \in Seq(Act)
  BY <1>3
<1> QED BY <1>2, <1>3

(* Between two calls no action waits. *)
LEMMA IdleSound ==
    ASSUME DaemonInv, Idle
    PROVE  /\ Sound(owner, waiting, next, sockets, waiters, <<>>)
           /\ Pend = <<>> /\ waiters \subseteq Qid
<1>1. Pend = <<>>
  BY EmptyIds, Joined DEF Idle, Pend
<1>2. Sound(owner, waiting, next, sockets, waiters, <<>>)
  BY <1>1 DEF DaemonInv
<1>3. waiters = waiting
  BY SMTT(30), <1>2, EmptyIds DEF Sound, Tied
<1>4. waiting \subseteq Qid
  BY <1>2 DEF Sound, Tied
<1> QED BY <1>1, <1>2, <1>3, <1>4

(* An action is carried out. *)
LEMMA PerformInv ==
    ASSUME DaemonInv, Perform
    PROVE  DaemonInv'
<1>1. /\ todo \in Seq(Act) /\ follow \in Seq(Act) /\ todo # <<>>
      /\ Sound(owner, waiting, next, sockets, waiters, Pend)
      /\ mark \in Nat /\ mark <= next /\ next \in Nat
      /\ clients \cap waiters = {} /\ clients \cup waiters \subseteq seen
      /\ unserved = clients \cup waiters
      /\ phase # "tick" /\ phase # "poll"
  BY DEF DaemonInv, Perform, Idle, Sound, Tied
<1>2. /\ todo' = Tail(todo) /\ mark' = mark /\ phase' = phase /\ clients' = clients /\ seen' = seen
  BY DEF Perform, loopVars
<1>3. /\ Pend # <<>> /\ Head(Pend) = Head(todo) /\ Tail(Pend) = Tail(todo) \o follow
      /\ Tail(todo) \in Seq(Act)
  BY SMTT(30), <1>1, Joined DEF Pend
<1>4. ASSUME Sound(owner', waiting', next', sockets', waiters', Pend'), follow' \in Seq(Act),
             next' >= next, next' \in Nat, waiters' \subseteq waiters,
             unserved' = clients \cup waiters'
      PROVE  DaemonInv'
  <2>1. mark' <= next'
    BY SMTT(30), <1>1, <1>2, <1>4
  <2> QED BY SMTT(30), <1>1, <1>2, <1>3, <1>4, <2>1 DEF DaemonInv
<1>5. CASE /\ Head(todo).do = "send" /\ sockets' = sockets \cup {Head(todo).id}
           /\ UNCHANGED <<exchangeVars, follow>> /\ UNCHANGED <<waiters, unserved>>
  <2>1. Pend' = Tail(Pend) /\ owner' = owner /\ waiting' = waiting /\ next' = next
    BY SMTT(30), <1>2, <1>3, <1>5 DEF Pend, exchangeVars
  <2>2. Sound(owner, waiting, next, sockets \cup {Head(Pend).id}, waiters, Tail(Pend))
    BY SMTT(30), <1>1, <1>3, <1>5, SentSound
  <2>3. Sound(owner', waiting', next', sockets', waiters', Pend')
    BY Zenon, <1>3, <1>5, <2>1, <2>2
  <2> QED BY SMTT(30), <1>1, <1>4, <1>5, <2>1, <2>3
<1>6. CASE /\ Head(todo).do = "send" /\ \E o \in After : FailedSend(Head(todo).id, o)
           /\ UNCHANGED sockets /\ UNCHANGED <<waiters, unserved>>
  <2>1. PICK o \in After : FailedSend(Head(todo).id, o)
    BY <1>6
  <2> DEFINE x == Head(Pend).id
             N == Asked(x, o)
  <2>2. Ends(x, o) /\ follow' = follow \o N
    BY Zenon, <1>3, <2>1 DEF FailedSend
  <2>3. Loose(owner, waiting, next, sockets, waiters, Tail(Pend), x)
    BY ZenonT(40), <1>1, <1>3, <1>6, FailedSendLoose
  <2>4. Sound(owner', waiting', next', sockets, waiters, Tail(Pend) \o N)
    BY ZenonT(40), <2>2, <2>3, EndsTies
  <2>5. x \in DOMAIN owner /\ DOMAIN owner \subseteq 0..(next - 1) /\ owner[x].qid \in Qid
    BY <2>3 DEF Loose, Tied
  <2>6. N \in Seq(Act)
    BY Zenon, <1>1, <2>5, AskedIds
  <2>7. next' = IF o = <<>> THEN next ELSE next + 1
    BY Zenon, <1>1, <2>2, <2>5, EndsEffect
  <2> HIDE DEF N, x
  <2>8. Pend' = Tail(Pend) \o N
    <3>1. Pend' = Tail(todo) \o (follow \o N)
      BY <1>2, <2>2 DEF Pend
    <3> DEFINE t == Tail(todo)
    <3>2. t \in Seq(Act)
      BY SMTT(30), <1>3
    <3> HIDE DEF t
    <3>3. (t \o follow) \o N = t \o (follow \o N)
      BY ZenonT(40), <1>1, <2>6, <3>2, JoinedTwice
    <3> QED BY Zenon, <1>3, <3>1, <3>3 DEF t
  <2>9. follow' \in Seq(Act)
    BY <1>1, <2>2, <2>6, ConcatIds
  <2> QED BY SMTT(30), <1>1, <1>4, <1>6, <2>4, <2>7, <2>8, <2>9
<1>7. CASE PerformCancel
  <2>1. /\ Pend' = Tail(Pend) /\ owner' = owner /\ waiting' = waiting /\ next' = next
        /\ sockets' = sockets \ {Head(Pend).id} /\ Head(Pend).do = "cancel" /\ follow' = follow
        /\ waiters' = waiters /\ unserved' = unserved
    BY ZenonT(40), <1>2, <1>3, <1>7 DEF Pend, exchangeVars, PerformCancel
  <2>2. Sound(owner, waiting, next, sockets \ {Head(Pend).id}, waiters, Tail(Pend))
    BY Zenon, <1>1, <1>3, <2>1, CancelledSound
  <2>3. Sound(owner', waiting', next', sockets', waiters', Pend')
    BY <2>1, <2>2
  <2> QED BY SMTT(30), <1>1, <1>4, <2>1, <2>3
<1>8. CASE PerformDone
  <2>1. /\ Pend' = Tail(Pend) /\ owner' = owner /\ waiting' = waiting /\ next' = next
        /\ sockets' = sockets /\ Head(Pend).do = "done" /\ follow' = follow
        /\ waiters' = waiters \ {Head(Pend).id}
        /\ unserved' = unserved \ (waiters \cap {Head(Pend).id})
    BY <1>2, <1>3, <1>8 DEF Pend, exchangeVars, PerformDone, deliver
  <2>2. /\ Sound(owner, waiting, next, sockets, waiters \ {Head(Pend).id}, Tail(Pend))
        /\ Head(Pend).id \in waiters
    BY Zenon, <1>1, <1>3, <2>1, DeliveredSound
  <2>3. Sound(owner', waiting', next', sockets', waiters', Pend')
    BY SMTT(30), <2>1, <2>2
  <2>4. unserved' = clients \cup waiters'
    BY SMTT(30), <1>1, <2>1, <2>2
  <2> QED BY SMTT(30), <1>1, <1>4, <2>1, <2>3, <2>4
<1> QED BY Zenon, <1>5, <1>6, <1>7, <1>8 DEF Perform, PerformSend

(* The actions that failed sends led to come next. *)
LEMMA FollowUpsInv ==
    ASSUME DaemonInv, FollowUps
    PROVE  DaemonInv'
<1>1. /\ follow \in Seq(Act) /\ todo = <<>> /\ follow # <<>> /\ todo' = follow /\ follow' = <<>>
      /\ phase # "tick"
      /\ UNCHANGED <<owner, waiting, next, phase, mark, sockets, waiters, clients, seen, unserved>>
  BY DEF DaemonInv, FollowUps, exchangeVars, loopVars, tables, history
<1>2. Pend' = Pend
  BY <1>1, Joined DEF Pend
<1>3. <<>> \in Seq(Act)
  BY EmptyIds
<1>4. Sound(owner', waiting', next', sockets', waiters', Pend')
  BY SMTT(30), <1>1, <1>2 DEF DaemonInv
<1>5. phase' # "tick" /\ phase' # "poll"
  BY <1>1 DEF DaemonInv, Idle
<1> QED BY SMTT(30), <1>1, <1>3, <1>4, <1>5 DEF DaemonInv

(* Neither poll, the end of tick nor the dropping of late clients touches  *)
(* the engine or the sockets.                                              *)
LEMMA LoopInv ==
    ASSUME DaemonInv, Poll \/ TickEnds \/ ExpireSome
    PROVE  DaemonInv'
<1>1. /\ UNCHANGED <<owner, waiting, next, sockets, waiters, todo, follow, seen>>
      /\ Pend' = Pend
  BY SMTT(30) DEF Poll, TickEnds, ExpireSome, Expire, exchangeVars, tables, history, Pend
<1>2. next \in Nat
  BY DEF DaemonInv, Sound, Tied
<1>3. Sound(owner', waiting', next', sockets', waiters', Pend')
  BY <1>1 DEF DaemonInv
<1>4. CASE Poll
  <2>1. phase' = "hangups" /\ mark' = next /\ clients' = clients /\ unserved' = unserved
    BY <1>4 DEF Poll, tables, history
  <2> QED BY SMTT(30), <1>1, <1>2, <1>3, <2>1 DEF DaemonInv
<1>5. CASE TickEnds
  <2>1. phase' = "expire" /\ mark' = mark /\ clients' = clients /\ unserved' = unserved
    BY ZenonT(40), <1>5 DEF TickEnds, tables, history
  <2> QED BY SMTT(30), <1>1, <1>2, <1>3, <2>1 DEF DaemonInv
<1>6. CASE ExpireSome
  <2>1. PICK late \in SUBSET (polled.clients \cap clients) : Expire(late)
    BY SMTT(30), <1>6 DEF ExpireSome
  <2>2. /\ Idle /\ phase' = "poll" /\ mark' = 0 /\ clients' = clients \ late
        /\ unserved' = unserved \ late
    BY SMTT(30), <2>1 DEF Expire
  <2>3. unserved' = clients' \cup waiters' /\ clients' \cap waiters' = {}
        /\ clients' \cup waiters' \subseteq seen'
    BY SMTT(30), <1>1, <2>1, <2>2 DEF DaemonInv
  <2>4. Idle'
    BY <1>1, <2>2 DEF Idle
  <2> QED BY SMTT(30), <1>1, <1>2, <1>3, <2>2, <2>3, <2>4 DEF DaemonInv
<1> QED BY SMTT(30), <1>4, <1>5, <1>6

(* What a visit between two calls leaves to be shown. *)
LEMMA VisitInv ==
    ASSUME DaemonInv, NEW p \in {"hangups", "upstream", "udp", "tcp_accept", "tcp",
                                 "native_accept", "native"},
           NEW left, Visit(p, left),
           Sound(owner', waiting', next', sockets', waiters', todo'), follow' = follow,
           next' >= next,
           clients' \cap waiters' = {}, clients' \cup waiters' \subseteq seen',
           unserved' = clients' \cup waiters'
    PROVE  DaemonInv'
<1>1. follow' = <<>> /\ phase' = p /\ mark' = mark
  BY SMTT(30) DEF Visit, Idle
<1>2. todo' \in Seq(Act) /\ next' \in Nat
  BY DEF Sound, Tied
<1>3. Pend' = todo'
  BY SMTT(30), <1>1, <1>2, Joined DEF Pend
<1>4. mark' \in Nat /\ mark' <= next'
  <2>1. mark \in Nat /\ mark <= next /\ next \in Nat
    BY DEF DaemonInv, Sound, Tied
  <2> QED BY SMTT(30), <1>1, <1>2, <2>1
<1>5. follow' \in Seq(Act)
  BY <1>1, EmptyIds
<1>6. Sound(owner', waiting', next', sockets', waiters', Pend')
  BY <1>3
<1>7. phase' # "tick" /\ phase' # "poll"
  BY <1>1
<1> QED BY Zenon, <1>2, <1>4, <1>5, <1>6, <1>7 DEF DaemonInv

(* A waiting peer hangs up. *)
LEMMA HangupInv ==
    ASSUME DaemonInv, NEW q \in Qid, Hangup(q)
    PROVE  DaemonInv'
<1>0. PICK order \in Bijection(1..Cardinality(ExchangesOf(q)), ExchangesOf(q)) :
          todo' = [i \in DOMAIN order |-> Cancel(order[i])]
  BY ZenonT(40) DEF Hangup
<1>1. /\ Idle /\ q \in waiters /\ abandon(q)
      /\ Visit("hangups", [polled EXCEPT !.waiters = @ \ {q}])
      /\ waiters' = waiters \ {q} /\ unserved' = unserved \ {q}
      /\ sockets' = sockets /\ clients' = clients /\ follow' = follow /\ seen' = seen
  BY DEF Hangup, Visit
<1>2. Sound(owner, waiting, next, sockets, waiters, <<>>)
  BY <1>1, IdleSound
<1>3. Sound(owner', waiting', next', sockets, waiters \ {q}, todo') /\ next' = next
  BY ZenonT(40), <1>0, <1>1, <1>2, HangupSound
<1>4. Sound(owner', waiting', next', sockets', waiters', todo')
  BY <1>1, <1>3
<1>5. /\ clients' \cap waiters' = {} /\ clients' \cup waiters' \subseteq seen'
      /\ unserved' = clients' \cup waiters'
  BY ZenonT(40), <1>1 DEF DaemonInv
<1>6. next' >= next
  BY <1>3 DEF DaemonInv, Sound, Tied
<1> QED BY Zenon, <1>1, <1>4, <1>5, <1>6, VisitInv

(* A socket is closed and the engine told. *)
LEMMA ServiceInv ==
    ASSUME DaemonInv, NEW x \in sockets, NEW o \in After, Service(x, o)
    PROVE  DaemonInv'
<1>1. /\ Idle /\ Visit("upstream", [polled EXCEPT !.upstream = @ \ {x}])
      /\ sockets' = sockets \ {x} /\ Ends(x, o) /\ todo' = Asked(x, o)
      /\ waiters' = waiters /\ clients' = clients /\ follow' = follow
      /\ seen' = seen /\ unserved' = unserved
  BY DEF Service, Visit, history
<1>2. Sound(owner, waiting, next, sockets, waiters, <<>>)
  BY SMTT(30), <1>1, IdleSound
<1>3. Loose(owner, waiting, next, sockets \ {x}, waiters, <<>>, x)
  BY <1>2, ClosedLoose
<1>4. Sound(owner', waiting', next', sockets \ {x}, waiters, <<>> \o Asked(x, o))
  BY Zenon, <1>1, <1>3, EndsTies
<1>5. /\ x \in DOMAIN owner /\ DOMAIN owner \subseteq 0..(next - 1) /\ owner[x].qid \in Qid
      /\ next \in Nat
  BY SMTT(30), <1>3 DEF Loose, Tied
<1>6. Asked(x, o) \in Seq(Act)
  BY <1>5, AskedIds
<1>7. next' = IF o = <<>> THEN next ELSE next + 1
  BY Zenon, <1>1, <1>5, EndsEffect
<1>8. <<>> \o Asked(x, o) = Asked(x, o)
  BY <1>6, Joined
<1>9. Sound(owner', waiting', next', sockets', waiters', todo')
  BY SMTT(30), <1>1, <1>4, <1>8
<1>10. next' >= next
  BY <1>5, <1>7
<1>11. /\ clients' \cap waiters' = {} /\ clients' \cup waiters' \subseteq seen'
       /\ unserved' = clients' \cup waiters'
  BY <1>1 DEF DaemonInv
<1> QED BY SMTT(30), <1>1, <1>9, <1>10, <1>11, VisitInv

(* A datagram or a connection comes, or a connection is read from. *)
LEMMA ReceiveUdpInv ==
    ASSUME DaemonInv, NEW q \in Qid, ReceiveUdp(q)
    PROVE  DaemonInv'
<1>1. /\ Idle /\ Visit("udp", polled) /\ q \notin seen /\ seen' = seen \cup {q}
      /\ sockets' = sockets /\ clients' = clients /\ follow' = follow
  BY ZenonT(40) DEF ReceiveUdp, Arrives, Visit
<1>2. Sound(owner, waiting, next, sockets, waiters, <<>>) /\ next \in Nat
  BY SMTT(30), <1>1, IdleSound DEF Sound, Tied
<1>3. q \notin waiters /\ q \notin clients
  BY <1>1 DEF DaemonInv
<1>4. CASE UNCHANGED <<exchangeVars, waiters, todo, unserved>>
  <2>1. /\ todo' = <<>> /\ waiters' = waiters /\ unserved' = unserved
        /\ owner' = owner /\ waiting' = waiting /\ next' = next
    BY <1>1, <1>4 DEF Idle, exchangeVars
  <2>2. Sound(owner', waiting', next', sockets', waiters', todo')
    BY SMTT(30), <1>1, <1>2, <2>1
  <2>3. /\ clients' \cap waiters' = {} /\ clients' \cup waiters' \subseteq seen'
        /\ unserved' = clients' \cup waiters'
    BY <1>1, <2>1 DEF DaemonInv
  <2>4. next' >= next
    BY <1>2, <2>1
  <2> QED BY Zenon, <1>1, <2>2, <2>3, <2>4, VisitInv
<1>5. CASE (\E fuels \in Starts : Put(q, fuels)) /\ unserved' = unserved \cup {q}
  <2>1. PICK fuels \in Starts : Put(q, fuels)
    BY <1>5
  <2>2. /\ Sound(owner', waiting', next', sockets, waiters', todo')
        /\ next' >= next /\ waiters' = waiters \cup {q}
    BY Zenon, <1>2, <1>3, <2>1, PutSound
  <2>3. /\ clients' \cap waiters' = {} /\ clients' \cup waiters' \subseteq seen'
        /\ unserved' = clients' \cup waiters'
    BY Zenon, <1>1, <1>3, <1>5, <2>2 DEF DaemonInv
  <2>4. Sound(owner', waiting', next', sockets', waiters', todo')
    BY <1>1, <2>2
  <2> QED BY Zenon, <1>1, <2>2, <2>3, <2>4, VisitInv
<1> QED BY Zenon, <1>4, <1>5 DEF ReceiveUdp

(* A connection is accepted, or turned away. *)
LEMMA AcceptInv ==
    ASSUME DaemonInv, NEW q \in Qid, Accept(q)
    PROVE  DaemonInv'
<1> DEFINE p == IF Door[q] = "tcp" THEN "tcp_accept" ELSE "native_accept"
<1>1. /\ Idle /\ Visit(p, polled) /\ q \notin seen /\ seen' = seen \cup {q}
      /\ sockets' = sockets /\ waiters' = waiters /\ follow' = follow /\ todo' = <<>>
      /\ owner' = owner /\ waiting' = waiting /\ next' = next
  BY Zenon DEF Accept, Arrives, Visit, exchangeVars, Idle
<1>2. Sound(owner, waiting, next, sockets, waiters, <<>>) /\ next \in Nat
  BY SMTT(30), <1>1, IdleSound DEF Sound, Tied
<1>3. Sound(owner', waiting', next', sockets', waiters', todo') /\ next' >= next
  BY <1>1, <1>2
<1>4. \/ clients' = clients \cup {q} /\ unserved' = unserved \cup {q}
      \/ clients' = clients /\ unserved' = unserved
  BY DEF Accept
<1>5. q \notin waiters /\ q \notin clients
  BY SMTT(30), <1>1 DEF DaemonInv
<1>6. /\ clients' \cap waiters' = {} /\ clients' \cup waiters' \subseteq seen'
      /\ unserved' = clients' \cup waiters'
  BY SMTT(30), <1>1, <1>4, <1>5 DEF DaemonInv
<1>7. p \in {"tcp_accept", "native_accept"}
  OBVIOUS
<1> HIDE DEF p
<1> QED BY Zenon, <1>1, <1>3, <1>6, <1>7, VisitInv

(* A connection is read from. *)
LEMMA ReadInv ==
    ASSUME DaemonInv, NEW q \in Qid, Read(q)
    PROVE  DaemonInv'
<1>1. /\ Idle /\ Visit(Door[q], [polled EXCEPT !.clients = @ \ {q}]) /\ q \in clients
      /\ clients' = clients \ {q}
      /\ sockets' = sockets /\ follow' = follow /\ seen' = seen
  BY DEF Read, Visit
<1>2. Sound(owner, waiting, next, sockets, waiters, <<>>) /\ next \in Nat
  BY <1>1, IdleSound DEF Sound, Tied
<1>3. Door[q] \in {"native", "tcp", "udp"}
  BY DaemonConstants
<1>4. q \notin waiters
  BY <1>1 DEF DaemonInv
<1>5. CASE unserved' = unserved \ {q} /\ UNCHANGED <<exchangeVars, waiters, todo>>
  <2>1. /\ todo' = <<>> /\ waiters' = waiters
        /\ owner' = owner /\ waiting' = waiting /\ next' = next
    BY <1>1, <1>5 DEF Idle, exchangeVars
  <2>2. Sound(owner', waiting', next', sockets', waiters', todo') /\ next' >= next
    BY <1>1, <1>2, <2>1
  <2>3. /\ clients' \cap waiters' = {} /\ clients' \cup waiters' \subseteq seen'
        /\ unserved' = clients' \cup waiters'
    BY <1>1, <1>4, <1>5, <2>1 DEF DaemonInv
  <2> QED BY Zenon, <1>1, <1>3, <2>2, <2>3, VisitInv
<1>6. CASE (\E fuels \in Starts : Put(q, fuels)) /\ unserved' = unserved
  <2>1. PICK fuels \in Starts : Put(q, fuels)
    BY SMTT(30), <1>6
  <2>2. /\ Sound(owner', waiting', next', sockets, waiters', todo')
        /\ next' >= next /\ waiters' = waiters \cup {q}
    BY SMTT(30), <1>2, <1>4, <2>1, PutSound
  <2>3. /\ clients' \cap waiters' = {} /\ clients' \cup waiters' \subseteq seen'
        /\ unserved' = clients' \cup waiters'
    BY SMTT(30), <1>1, <1>4, <1>6, <2>2 DEF DaemonInv
  <2>4. Sound(owner', waiting', next', sockets', waiters', todo')
    BY <1>1, <2>2
  <2> QED BY Zenon, <1>1, <1>3, <2>2, <2>3, <2>4, VisitInv
<1> QED BY <1>5, <1>6 DEF Read

(* An exchange is late: its socket is to be cancelled and the engine goes  *)
(* on.  It is older than the poll, and what waits to be sent in this phase *)
(* is not.                                                                 *)
LEMMA TickInv ==
    ASSUME DaemonInv, NEW x, NEW o \in After, Tick(x, o)
    PROVE  DaemonInv'
<1> DEFINE C == <<Cancel(x)>>
           N == Asked(x, o)
<1>1. /\ x \in DOMAIN owner /\ x < mark /\ Ends(x, o) /\ todo' = todo \o (C \o N)
      /\ follow' = follow /\ sockets' = sockets /\ waiters' = waiters /\ clients' = clients
      /\ seen' = seen /\ unserved' = unserved /\ phase' = "tick" /\ mark' = mark
  BY Zenon DEF Tick, TickActions, Visit, tables, history
<1>2. /\ mark \in Nat /\ mark <= next /\ next \in Nat /\ todo \in Seq(Act)
      /\ Sound(owner, waiting, next, sockets, waiters, Pend)
      /\ DOMAIN owner \subseteq 0..(next - 1) /\ owner[x].qid \in Qid /\ x \in Nat
  BY SMTT(30), <1>1 DEF DaemonInv, Sound, Tied
<1>3. follow = <<>> /\ \A y \in Ids(Pend, "send") : y >= mark
  <2>1. CASE phase = "tick"
    BY <2>1 DEF DaemonInv
  <2>2. CASE Idle
    <3>1. Pend = <<>>
      BY SMTT(30), <2>2, IdleSound
    <3> QED BY SMTT(30), <2>2, <3>1, EmptyIds DEF Idle
  <2> QED BY SMTT(30), <2>1, <2>2 DEF Tick, Visit
<1>4. Pend = todo
  BY SMTT(30), <1>2, <1>3, Joined DEF Pend
<1>5. x \notin Ids(todo, "send")
  BY SMTT(30), <1>1, <1>2, <1>3, <1>4
<1>6. Loose(owner, waiting, next, sockets, waiters, todo \o C, x)
  <2>1. Sound(owner, waiting, next, sockets, waiters, todo)
    BY <1>2, <1>4
  <2> QED BY SMTT(30), <1>1, <1>5, <2>1, LateLoose
<1>7. Sound(owner', waiting', next', sockets, waiters, (todo \o C) \o N)
  BY Zenon, <1>1, <1>6, EndsTies
<1>8. /\ N \in Seq(Act)
      /\ Ids(N, "send") = IF o = <<>> THEN {} ELSE {next}
  BY Zenon, <1>1, <1>2, AskedIds
<1>9. Cancel(x) \in Act /\ Cancel(x).do = "cancel"
  BY SMTT(30), <1>2 DEF Cancel, Act, Kind
<1>10. C \in Seq(Act) /\ \A d : Ids(C, d) = IF Cancel(x).do = d THEN {Cancel(x).id} ELSE {}
  BY <1>9, OneId
<1>11. Ids(C, "send") = {}
  BY Zenon, <1>9, <1>10
<1>12. next' = IF o = <<>> THEN next ELSE next + 1
  BY Zenon, <1>1, <1>2, EndsEffect
<1> HIDE DEF C, N
<1>13. /\ C \o N \in Seq(Act) /\ todo \o (C \o N) \in Seq(Act)
       /\ \A d : Ids(C \o N, d) = Ids(C, d) \cup Ids(N, d)
       /\ \A d : Ids(todo \o (C \o N), d) = Ids(todo, d) \cup Ids(C \o N, d)
  <2>1. C \o N \in Seq(Act) /\ \A d : Ids(C \o N, d) = Ids(C, d) \cup Ids(N, d)
    BY <1>8, <1>10, ConcatIds
  <2> QED BY Zenon, <1>2, <2>1, ConcatIds
<1>14. (todo \o C) \o N = todo \o (C \o N)
  BY ZenonT(90), <1>2, <1>8, <1>10, JoinedTwice
<1>15. follow' = <<>> /\ todo' \in Seq(Act)
  BY <1>1, <1>3, <1>13
<1>16. Pend' = todo'
  BY SMTT(30), <1>15, Joined DEF Pend
<1>17. Sound(owner', waiting', next', sockets', waiters', Pend')
  BY <1>1, <1>7, <1>14, <1>16
<1>18. \A y \in Ids(Pend', "send") : y >= mark'
  <2>1. Ids(Pend', "send") = Ids(todo, "send") \cup Ids(N, "send")
    BY SMTT(30), <1>1, <1>11, <1>13, <1>16
  <2>2. \A y \in Ids(N, "send") : y >= mark
    BY SMTT(30), <1>2, <1>8
  <2> QED BY Zenon, <1>1, <1>3, <1>4, <2>1, <2>2
<1>19. mark' \in Nat /\ mark' <= next' /\ follow' \in Seq(Act)
  BY SMTT(30), <1>1, <1>2, <1>12, <1>15, EmptyIds
<1>20. /\ clients' \cap waiters' = {} /\ clients' \cup waiters' \subseteq seen'
       /\ unserved' = clients' \cup waiters'
  BY <1>1 DEF DaemonInv
<1>21. phase' # "poll"
  BY SMTT(30), <1>1
<1> QED BY Zenon, <1>15, <1>17, <1>18, <1>19, <1>20, <1>21 DEF DaemonInv

(* The daemon starts with nothing to do. *)
LEMMA InitInv == DaemonInit => DaemonInv
<1> SUFFICES ASSUME DaemonInit PROVE DaemonInv
  BY SMTT(30)
<1>1. /\ owner = <<>> /\ waiting = {} /\ next = 1 /\ sockets = {} /\ waiters = {} /\ clients = {}
      /\ todo = <<>> /\ follow = <<>> /\ phase = "poll" /\ mark = 0 /\ unserved = {} /\ Idle
  BY DEF DaemonInit, ExchangesInit, Idle
<1>2. Pend = <<>>
  BY <1>1, EmptyIds, Joined DEF Pend
<1>3. DOMAIN owner = {}
  BY <1>1
<1>4. Sound(owner, waiting, next, sockets, waiters, Pend)
  BY Zenon, <1>1, <1>2, <1>3, EmptyIds DEF Sound, Tied
<1> QED BY SMTT(30), <1>1, <1>2, <1>4, EmptyIds DEF DaemonInv

(* Every step of the daemon keeps the invariant. *)
LEMMA StepInv == DaemonInv /\ [DaemonNext]_daemonVars => DaemonInv'
<1> SUFFICES ASSUME DaemonInv, [DaemonNext]_daemonVars PROVE DaemonInv'
  OBVIOUS
<1>1. CASE Poll \/ TickEnds \/ ExpireSome
  BY <1>1, LoopInv
<1>2. CASE Perform
  BY <1>2, PerformInv
<1>3. CASE FollowUps
  BY <1>3, FollowUpsInv
<1>4. ASSUME NEW q \in Qid, Hangup(q) PROVE DaemonInv'
  BY <1>4, HangupInv
<1>5. ASSUME NEW q \in Qid, ReceiveUdp(q) PROVE DaemonInv'
  BY Zenon, <1>5, ReceiveUdpInv
<1>6. ASSUME NEW q \in Qid, Accept(q) PROVE DaemonInv'
  BY <1>6, AcceptInv
<1>7. ASSUME NEW q \in Qid, Read(q) PROVE DaemonInv'
  BY <1>7, ReadInv
<1>8. ASSUME NEW x \in sockets, NEW o \in After, Service(x, o) PROVE DaemonInv'
  BY <1>8, ServiceInv
<1>9. ASSUME NEW q \in Qid, TickOf(q) PROVE DaemonInv'
  BY Zenon, <1>9, TickInv DEF TickOf
<1>10. CASE UNCHANGED daemonVars
  <2>1. UNCHANGED <<owner, waiting, next, sockets, waiters, clients, phase, mark, todo, follow,
                    seen, unserved>>
    BY <1>10 DEF daemonVars, exchangeVars, loopVars, tables, history
  <2>2. Pend' = Pend /\ (Idle' <=> Idle)
    BY SMTT(30), <2>1 DEF Pend, Idle
  <2>3. Sound(owner', waiting', next', sockets', waiters', Pend')
    BY <2>1, <2>2 DEF DaemonInv
  <2> QED BY Zenon, <2>1, <2>2, <2>3 DEF DaemonInv
<1> QED
  BY Zenon, <1>1, <1>2, <1>3, <1>4, <1>5, <1>6, <1>7, <1>8, <1>9, <1>10 DEF DaemonNext, Loop, Ready

-----------------------------------------------------------------------------
(* The daemon's tables, its pending actions and the engine stay in step    *)
(* through every interleaving of the loop (perform, deliver, tick).        *)
THEOREM DaemonInvariance == DaemonSpec => []DaemonInv
BY InitInv, StepInv, PTL DEF DaemonSpec

(* Whenever the loop polls, the open sockets are exactly the outstanding   *)
(* exchanges and the askers kept are exactly those without an answer.      *)
THEOREM TablesStayInStep == DaemonSpec => []TablesAgree
<1>1. DaemonInv => TablesAgree
  <2> SUFFICES ASSUME DaemonInv, phase = "poll" PROVE sockets = DOMAIN owner /\ waiters = waiting
    BY DEF TablesAgree
  <2>1. Sound(owner, waiting, next, sockets, waiters, <<>>)
    BY Zenon, IdleSound DEF DaemonInv
  <2> QED BY <2>1, EmptyIds DEF Sound, Tied
<1> QED BY <1>1, DaemonInvariance, PTL

(* Every action that waits its turn in perform is still right when its     *)
(* turn comes, whatever failed sends and late exchanges put before it.     *)
THEOREM ActionsStayCurrent == DaemonSpec => []PendingActionsCurrent
<1>1. DaemonInv => PendingActionsCurrent
  <2> SUFFICES ASSUME DaemonInv, NEW i \in DOMAIN Pend
               PROVE  CASE Pend[i].do = "send"   -> Pend[i].id \in DOMAIN owner
                        [] Pend[i].do = "cancel" -> /\ Pend[i].id \notin DOMAIN owner
                                                    /\ Send(Pend[i].id) \notin Range(Pend)
                        [] Pend[i].do = "done"   -> Pend[i].id \in waiters
    BY Zenon DEF PendingActionsCurrent, Pend
  <2>1. /\ Pend \in Seq(Act)
        /\ Ids(Pend, "send") \subseteq DOMAIN owner
        /\ Ids(Pend, "cancel") \cap DOMAIN owner = {}
        /\ Ids(Pend, "done") \subseteq waiters
    BY DEF DaemonInv, Sound, Tied
  <2>2. Pend[i] \in Act
    BY SMTT(30), <2>1
  <2>3. Pend[i].do \in Kind /\ Pend[i].id \in Ids(Pend, Pend[i].do)
    BY <2>2, IdsIn DEF Act
  <2>4. CASE Pend[i].do = "send"
    BY <2>1, <2>3, <2>4
  <2>5. CASE Pend[i].do = "cancel"
    <3>1. Pend[i].id \notin DOMAIN owner
      BY SMTT(30), <2>1, <2>3, <2>5
    <3>2. ASSUME Send(Pend[i].id) \in Range(Pend) PROVE FALSE
      <4>1. PICK j \in DOMAIN Pend : Pend[j] = Send(Pend[i].id)
        BY SMTT(30), <3>2 DEF Range
      <4>2. Pend[j].do = "send" /\ Pend[j].id = Pend[i].id
        BY SMTT(30), <4>1 DEF Send
      <4>3. Pend[i].id \in Ids(Pend, "send")
        BY <4>1, <4>2, IdsIn
      <4> QED BY SMTT(30), <2>1, <3>1, <4>3
    <3> QED BY SMTT(30), <2>5, <3>1, <3>2
  <2>6. CASE Pend[i].do = "done"
    BY Zenon, <2>1, <2>3, <2>6
  <2> QED BY Zenon, <2>3, <2>4, <2>5, <2>6 DEF Kind
<1> QED BY <1>1, DaemonInvariance, PTL

(* Nobody accepted is left without a reply, and nobody gets two (deliver). *)
THEOREM RepliesAreOnce == DaemonSpec => []RepliedOnce
<1>1. DaemonInv => RepliedOnce
  BY DEF DaemonInv, RepliedOnce
<1> QED BY <1>1, DaemonInvariance, PTL

-----------------------------------------------------------------------------
(* The budgets of the doors *)

AtMost(S, n) == IsFiniteSet(S) /\ Cardinality(S) <= n

OfPeer(S, p) == {q \in AtDoor(S, "udp") : Peer[q] = p}

(* Only stream connections are read from, and every budget holds. *)
DoorsInv ==
    /\ IsFiniteSet(clients) /\ IsFiniteSet(waiters)
    /\ \A q \in clients : Door[q] # "udp"
    /\ \A door \in {"tcp", "native"} : AtMost(AtDoor(clients \cup waiters, door), MAX_PENDING_CLIENTS)
    /\ AtMost(AtDoor(waiters, "udp"), MAX_PENDING_UDP)
    /\ \A p \in Range(Peer) : AtMost(OfPeer(waiters, p), MAX_PENDING_UDP_PER_PEER)

(* A part of a set that is within a budget is within it. *)
LEMMA SmallerAtMost ==
    ASSUME NEW S, NEW T, T \subseteq S, NEW n \in Nat, AtMost(S, n)
    PROVE  AtMost(T, n)
<1>1. IsFiniteSet(T) /\ Cardinality(T) <= Cardinality(S)
  BY FS_Subset DEF AtMost
<1>2. Cardinality(T) \in Nat /\ Cardinality(S) \in Nat
  BY SMTT(30), <1>1, FS_CardinalityType DEF AtMost
<1> QED BY SMTT(30), <1>1, <1>2 DEF AtMost

(* One more fits where there is room. *)
LEMMA OneMoreAtMost ==
    ASSUME NEW S, NEW x, NEW n \in Nat, IsFiniteSet(S), Cardinality(S) < n
    PROVE  AtMost(S \cup {x}, n)
<1>1. /\ IsFiniteSet(S \cup {x}) /\ Cardinality(S) \in Nat
      /\ Cardinality(S \cup {x}) = IF x \in S THEN Cardinality(S) ELSE Cardinality(S) + 1
  BY FS_AddElement, FS_CardinalityType
<1> QED BY SMTT(30), <1>1 DEF AtMost

(* Budgets survive whatever serves no one new. *)
LEMMA NobodyNew ==
    ASSUME DoorsInv, clients' \subseteq clients, waiters' \subseteq clients \cup waiters
    PROVE  DoorsInv'
<1>1. IsFiniteSet(clients') /\ IsFiniteSet(waiters')
  <2>1. IsFiniteSet(clients \cup waiters)
    BY Zenon, FS_Union DEF DoorsInv
  <2> QED BY <2>1, FS_Subset DEF DoorsInv
<1>2. \A q \in clients' : Door[q] # "udp"
  BY DEF DoorsInv
<1>3. \A door : AtDoor(clients' \cup waiters', door) \subseteq AtDoor(clients \cup waiters, door)
  BY DEF AtDoor
<1>4. AtDoor(waiters', "udp") \subseteq AtDoor(waiters, "udp")
  BY DEF AtDoor, DoorsInv
<1>5. \A p : OfPeer(waiters', p) \subseteq OfPeer(waiters, p)
  BY SMTT(30), <1>4 DEF OfPeer
<1>6. /\ MAX_PENDING_CLIENTS \in Nat /\ MAX_PENDING_UDP \in Nat /\ MAX_PENDING_UDP_PER_PEER \in Nat
  BY DaemonConstants
<1>7. \A door \in {"tcp", "native"} :
         AtMost(AtDoor(clients' \cup waiters', door), MAX_PENDING_CLIENTS)
  BY Zenon, <1>3, <1>6, SmallerAtMost DEF DoorsInv
<1>8. AtMost(AtDoor(waiters', "udp"), MAX_PENDING_UDP)
  BY SMTT(30), <1>4, <1>6, SmallerAtMost DEF DoorsInv
<1>9. \A p \in Range(Peer) : AtMost(OfPeer(waiters', p), MAX_PENDING_UDP_PER_PEER)
  BY SMTT(30), <1>5, <1>6, SmallerAtMost DEF DoorsInv
<1> QED BY Zenon, <1>1, <1>2, <1>7, <1>8, <1>9 DEF DoorsInv

(* A connection is taken when its door has room. *)
LEMMA AcceptKeepsBudget ==
    ASSUME DoorsInv, NEW q \in Qid, Accept(q)
    PROVE  DoorsInv'
<1>1. waiters' = waiters /\ Door[q] # "udp"
  BY DEF Accept
<1>2. CASE clients' = clients
  BY <1>1, <1>2, NobodyNew
<1>3. CASE clients' = clients \cup {q} /\ HasRoom(Door[q])
  <2>1. IsFiniteSet(clients) /\ IsFiniteSet(waiters) /\ MAX_PENDING_CLIENTS \in Nat
    BY ZenonT(40), DaemonConstants DEF DoorsInv
  <2>2. IsFiniteSet(clients')
    BY SMTT(30), <1>3, <2>1, FS_AddElement
  <2>3. ASSUME NEW door \in {"tcp", "native"}
        PROVE  AtMost(AtDoor(clients' \cup waiters', door), MAX_PENDING_CLIENTS)
    <3> DEFINE A == AtDoor(clients, door)
               W == AtDoor(waiters, door)
    <3>1. CASE Door[q] # door
      <4>1. AtDoor(clients' \cup waiters', door) = AtDoor(clients \cup waiters, door)
        BY <1>1, <1>3, <3>1 DEF AtDoor
      <4> QED BY <4>1 DEF DoorsInv
    <3>2. CASE Door[q] = door
      <4>1. AtDoor(clients' \cup waiters', door) = (A \cup W) \cup {q}
        BY SMTT(30), <1>1, <1>3, <3>2 DEF AtDoor
      <4>2. A \subseteq clients /\ W \subseteq waiters
        BY DEF AtDoor
      <4>3. IsFiniteSet(A) /\ IsFiniteSet(W)
        BY SMTT(30), <2>1, <4>2, FS_Subset
      <4>4. Cardinality(A) + Cardinality(W) < MAX_PENDING_CLIENTS
        BY SMTT(30), <1>3, <3>2 DEF HasRoom
      <4> HIDE DEF A, W
      <4>5. /\ IsFiniteSet(A \cup W)
            /\ Cardinality(A \cup W) = Cardinality(A) + Cardinality(W) - Cardinality(A \cap W)
        BY SMTT(30), <4>3, FS_Union
      <4>6. IsFiniteSet(A \cap W)
        BY SMTT(30), <4>3, FS_Intersection
      <4>7. Cardinality(A) \in Nat /\ Cardinality(W) \in Nat /\ Cardinality(A \cap W) \in Nat
        BY SMTT(30), <4>3, <4>6, FS_CardinalityType
      <4>8. Cardinality(A \cup W) < MAX_PENDING_CLIENTS
        BY SMTT(30), <2>1, <4>4, <4>5, <4>7
      <4> QED BY Zenon, <2>1, <4>1, <4>5, <4>8, OneMoreAtMost
    <3> QED BY SMTT(30), <3>1, <3>2
  <2>4. \A r \in clients' : Door[r] # "udp"
    BY SMTT(30), <1>1, <1>3 DEF DoorsInv
  <2>5. /\ AtMost(AtDoor(waiters', "udp"), MAX_PENDING_UDP)
        /\ \A p \in Range(Peer) : AtMost(OfPeer(waiters', p), MAX_PENDING_UDP_PER_PEER)
    BY SMTT(30), <1>1 DEF DoorsInv
  <2> QED BY ZenonT(40), <1>1, <2>1, <2>2, <2>3, <2>4, <2>5 DEF DoorsInv
<1> QED BY <1>2, <1>3 DEF Accept

(* A datagram is taken when there is room, and room for its peer. *)
LEMMA ReceiveUdpKeepsBudget ==
    ASSUME DoorsInv, NEW q \in Qid, ReceiveUdp(q)
    PROVE  DoorsInv'
<1>1. clients' = clients /\ Door[q] = "udp"
  BY DEF ReceiveUdp
<1>2. CASE waiters' = waiters
  BY <1>1, <1>2, NobodyNew
<1>3. CASE waiters' = waiters \cup {q} /\ udp_has_capacity(q)
  <2>1. /\ IsFiniteSet(clients) /\ IsFiniteSet(waiters)
        /\ MAX_PENDING_UDP \in Nat /\ MAX_PENDING_UDP_PER_PEER \in Nat
    BY SMTT(30), DaemonConstants DEF DoorsInv
  <2>2. IsFiniteSet(waiters')
    BY SMTT(30), <1>3, <2>1, FS_AddElement
  <2>3. AtDoor(waiters', "udp") = AtDoor(waiters, "udp") \cup {q}
    BY SMTT(30), <1>1, <1>3 DEF AtDoor
  <2>4. IsFiniteSet(AtDoor(waiters, "udp"))
    BY DEF DoorsInv, AtMost
  <2>5. /\ Cardinality(AtDoor(waiters, "udp")) < MAX_PENDING_UDP
        /\ Cardinality(OfPeer(waiters, Peer[q])) < MAX_PENDING_UDP_PER_PEER
    BY <1>3 DEF udp_has_capacity, OfPeer
  <2>6. AtMost(AtDoor(waiters', "udp"), MAX_PENDING_UDP)
    BY Zenon, <2>1, <2>3, <2>4, <2>5, OneMoreAtMost
  <2>7. ASSUME NEW p \in Range(Peer)
        PROVE  AtMost(OfPeer(waiters', p), MAX_PENDING_UDP_PER_PEER)
    <3>1. CASE p # Peer[q]
      <4>1. OfPeer(waiters', p) = OfPeer(waiters, p)
        BY Zenon, <2>3, <3>1 DEF OfPeer
      <4> QED BY <4>1 DEF DoorsInv
    <3>2. CASE p = Peer[q]
      <4>1. OfPeer(waiters', p) = OfPeer(waiters, p) \cup {q}
        BY SMTT(30), <2>3, <3>2 DEF OfPeer
      <4>2. IsFiniteSet(OfPeer(waiters, p))
        BY SMTT(30) DEF DoorsInv, AtMost
      <4> QED BY Zenon, <2>1, <2>5, <3>2, <4>1, <4>2, OneMoreAtMost
    <3> QED BY SMTT(30), <3>1, <3>2
  <2>8. ASSUME NEW door \in {"tcp", "native"}
        PROVE  AtMost(AtDoor(clients' \cup waiters', door), MAX_PENDING_CLIENTS)
    <3>1. AtDoor(clients' \cup waiters', door) = AtDoor(clients \cup waiters, door)
      BY SMTT(30), <1>1, <1>3 DEF AtDoor
    <3> QED BY <3>1 DEF DoorsInv
  <2>9. \A r \in clients' : Door[r] # "udp"
    BY <1>1 DEF DoorsInv
  <2> QED BY ZenonT(40), <1>1, <2>1, <2>2, <2>6, <2>7, <2>8, <2>9 DEF DoorsInv
<1> QED BY SMTT(30), <1>2, <1>3 DEF ReceiveUdp, Put

(* At the start nobody is served. *)
LEMMA InitDoors == DaemonInit => DoorsInv
<1> SUFFICES ASSUME DaemonInit PROVE DoorsInv
  OBVIOUS
<1>1. clients = {} /\ waiters = {}
  BY DEF DaemonInit
<1>2. /\ \A door : AtDoor(clients \cup waiters, door) = {} /\ AtDoor(waiters, "udp") = {}
      /\ \A p : OfPeer(waiters, p) = {}
  BY <1>1 DEF AtDoor, OfPeer
<1>3. IsFiniteSet({}) /\ Cardinality({}) = 0
  BY FS_EmptySet
<1>4. \A n \in Nat : AtMost({}, n)
  BY SMTT(30), <1>3 DEF AtMost
<1>5. /\ MAX_PENDING_CLIENTS \in Nat /\ MAX_PENDING_UDP \in Nat /\ MAX_PENDING_UDP_PER_PEER \in Nat
  BY DaemonConstants
<1> QED BY Zenon, <1>1, <1>2, <1>3, <1>4, <1>5 DEF DoorsInv

(* Every step of the daemon keeps the budgets. *)
LEMMA StepDoors == DoorsInv /\ [DaemonNext]_daemonVars => DoorsInv'
<1> SUFFICES ASSUME DoorsInv, [DaemonNext]_daemonVars PROVE DoorsInv'
  OBVIOUS
<1>1. CASE UNCHANGED tables
  BY <1>1, NobodyNew DEF tables
<1>2. CASE Perform
  <2>1. clients' = clients /\ waiters' \subseteq waiters
    BY SMTT(30), <1>2 DEF Perform, PerformSend, PerformCancel, PerformDone, deliver
  <2> QED BY Zenon, <2>1, NobodyNew
<1>3. CASE ExpireSome
  BY <1>3, NobodyNew DEF ExpireSome, Expire
<1>4. ASSUME NEW q \in Qid, Hangup(q) PROVE DoorsInv'
  BY <1>4, NobodyNew DEF Hangup
<1>5. ASSUME NEW q \in Qid, Read(q) PROVE DoorsInv'
  <2>1. q \in clients /\ clients' \subseteq clients
    BY <1>5 DEF Read
  <2>2. waiters' \subseteq waiters \cup {q}
    BY <1>5 DEF Read, Put
  <2> QED BY <2>1, <2>2, NobodyNew
<1>6. ASSUME NEW x \in sockets, NEW o \in After, Service(x, o) PROVE DoorsInv'
  BY SMTT(30), <1>6, NobodyNew DEF Service
<1>7. ASSUME NEW q \in Qid, TickOf(q) PROVE DoorsInv'
  BY SMTT(30), <1>1, <1>7 DEF TickOf, Tick
<1>8. CASE UNCHANGED daemonVars
  BY SMTT(30), <1>1, <1>8 DEF daemonVars
<1>9. CASE Poll \/ FollowUps \/ TickEnds
  BY <1>1, <1>9 DEF Poll, FollowUps, TickEnds
<1> QED
  BY Zenon, <1>2, <1>3, <1>4, <1>5, <1>6, <1>7, <1>8, <1>9, AcceptKeepsBudget, ReceiveUdpKeepsBudget
  DEF DaemonNext, Loop, Ready

(* The budgets of the doors hold for any number of requests: a connection  *)
(* counts once although it is a reader first and a waiter later, and a     *)
(* peer's datagrams never exceed its share (udp_has_capacity).             *)
THEOREM AdmissionIsBounded == DaemonSpec => []AdmissionBounded
<1>1. DoorsInv => AdmissionBounded
  BY DEF DoorsInv, AdmissionBounded, AtMost, OfPeer
<1> QED BY <1>1, InitDoors, StepDoors, PTL DEF DaemonSpec
=============================================================================
