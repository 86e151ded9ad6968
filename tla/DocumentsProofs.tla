-------------------------- MODULE DocumentsProofs ---------------------------
(***************************************************************************)
(* For any number of threads, items, values and connections: a write that  *)
(* returned normally and was not mixed with another thread's messages took *)
(* effect; SaveableItem implements Store; on a live connection every       *)
(* waiting thread has one reply to come and no reply is left over; an item *)
(* whose calls all went well has its object id exactly if it has a         *)
(* document.                                                               *)
(***************************************************************************)
EXTENDS Documents, FiniteSetTheorems, TLAPS

\* A message with a sender belongs to his running call; a write among them is
\* his call's, was not processed yet, and is the only one.
SenderActive ==
    \A c \in Connections : \A k \in 1 .. Len(wire[c]) :
        wire[c][k].from # Nobody =>
            call[wire[c][k].from].at \notin {"idle", "begin"}

WriteIsCalls ==
    \A c \in Connections : \A k \in 1 .. Len(wire[c]) :
        LET m == wire[c][k] IN
        m.from # Nobody /\ m.ask \in Writes =>
            /\ m.from \notin applied
            /\ m.ask = call[m.from].ask
            /\ m.item = call[m.from].item
            /\ m.val = call[m.from].val

OneWrite ==
    \A c, d \in Connections : \A k \in 1 .. Len(wire[c]), l \in 1 .. Len(wire[d]) :
        /\ wire[c][k].from # Nobody /\ wire[c][k].from = wire[d][l].from
        /\ wire[c][k].ask \in Writes /\ wire[d][l].ask \in Writes
        => c = d /\ k = l

\* Before its error check a call has nothing to be answered.
NoEarlyCheck ==
    \A t \in Threads : call[t].at \in {"idle", "begin", "said"} =>
        /\ \A c \in Connections : \A k \in 1 .. Len(wire[c]) :
              wire[c][k].from = t => wire[c][k].ask \in Writes
        /\ \A k \in 1 .. Len(replies) : replies[k].to # t

\* A call has no query on the way while it waits for its error check.
NoEarlyFetch ==
    \A t \in Threads : call[t].at = "checking" =>
        \A c \in Connections : \A k \in 1 .. Len(wire[c]) :
            wire[c][k].from = t => wire[c][k].ask # "fetch"

CallShape ==
    \A t \in Threads :
        /\ call[t].at \in {"begin", "said", "checking"} => call[t].ask \in Writes
        /\ call[t].at = "begin" => t \notin applied

\* Two calls at the same time overlap, and whatever mixes a call is an overlap.
Overlaps ==
    /\ \A t, u \in Active : t # u => t \in overlap
    /\ mixed \subseteq overlap
    /\ failed => \A t \in Threads : call[t].at = "said" => t \in overlap

\* An error check at place k of the messages s will report the write of t: the
\* write is before it with only checks between, or it failed (the last error e
\* is set) and only checks are before.
CoveredIn(t, s, e, k) ==
    \/ \E j \in 1 .. k - 1 :
          /\ s[j].from = t /\ s[j].ask \in Writes
          /\ \A l \in j + 1 .. k - 1 : s[l].ask = "check"
    \/ e /\ \A l \in 1 .. k - 1 : s[l].ask = "check"

Covered(t, c, k) == CoveredIn(t, wire[c], err[c], k)

CheckCovers ==
    \A t \in Threads \ (applied \cup mixed) :
        /\ call[t].at = "said" /\ up => Covered(t, conn, Len(wire[conn]) + 1)
        /\ call[t].at = "checking" =>
              /\ \A c \in Connections : \A k \in 1 .. Len(wire[c]) :
                    wire[c][k].from = t /\ wire[c][k].ask = "check" => Covered(t, c, k)
              /\ \A k \in 1 .. Len(replies) : replies[k].to = t => replies[k].err

\* Past its error check a write took effect, or was mixed.
CheckedTookEffect ==
    \A t \in Threads :
        call[t].at \in {"fetch", "fetching"} /\ call[t].ask # "load" =>
            t \in applied \cup mixed

IInv ==
    /\ TypeOK
    /\ SenderActive /\ WriteIsCalls /\ OneWrite /\ NoEarlyCheck /\ CallShape /\ Overlaps
    /\ CheckCovers /\ CheckedTookEffect /\ NormalReturnTookEffect

-----------------------------------------------------------------------------
(***************************************************************************)
(* What keeps an error check covered.                                      *)
(***************************************************************************)

\* Same messages, still covered.
LEMMA CoveredSame ==
    ASSUME NEW t, NEW s, NEW r, NEW e, NEW k \in Nat, CoveredIn(t, s, e, k),
           \A l \in 1 .. k - 1 : r[l].ask = s[l].ask /\ (s[l].from = t => r[l].from = t)
    PROVE  CoveredIn(t, r, e, k)
<1>1. CASE e /\ \A l \in 1 .. k - 1 : s[l].ask = "check"
  BY <1>1 DEF CoveredIn
<1>2. CASE \E j \in 1 .. k - 1 :
             /\ s[j].from = t /\ s[j].ask \in Writes
             /\ \A l \in j + 1 .. k - 1 : s[l].ask = "check"
  <2>1. PICK j \in 1 .. k - 1 :
             /\ s[j].from = t /\ s[j].ask \in Writes
             /\ \A l \in j + 1 .. k - 1 : s[l].ask = "check"
    BY <1>2
  <2>2. \A l \in j + 1 .. k - 1 : l \in 1 .. k - 1
    OBVIOUS
  <2>3. \A l \in j + 1 .. k - 1 : r[l].ask = "check"
    BY <2>1, <2>2
  <2> QED
    BY <2>1, <2>3 DEF CoveredIn
<1> QED
  BY <1>1, <1>2 DEF CoveredIn

\* A check does not change what the next check reports.
LEMMA CoveredPastCheck ==
    ASSUME NEW t, NEW s, NEW e, NEW k \in Nat, CoveredIn(t, s, e, k), s[k].ask = "check"
    PROVE  CoveredIn(t, s, e, k + 1)
<1>0. \A j \in Nat : \A l \in j .. (k + 1) - 1 : l \in j .. k - 1 \/ l = k
  OBVIOUS
<1>1. CASE e /\ \A l \in 1 .. k - 1 : s[l].ask = "check"
  BY <1>0, <1>1 DEF CoveredIn
<1>2. CASE \E j \in 1 .. k - 1 :
             /\ s[j].from = t /\ s[j].ask \in Writes
             /\ \A l \in j + 1 .. k - 1 : s[l].ask = "check"
  <2>1. PICK j \in 1 .. k - 1 :
             /\ s[j].from = t /\ s[j].ask \in Writes
             /\ \A l \in j + 1 .. k - 1 : s[l].ask = "check"
    BY <1>2
  <2>2. j \in 1 .. (k + 1) - 1 /\ j + 1 \in Nat
    OBVIOUS
  <2>3. \A l \in j + 1 .. (k + 1) - 1 : s[l].ask = "check"
    BY <1>0, <2>1, <2>2
  <2> QED
    BY <2>1, <2>2, <2>3 DEF CoveredIn
<1> QED
  BY <1>1, <1>2 DEF CoveredIn

\* The server takes the first message: e is the last error before, f after.
LEMMA CoveredTail ==
    ASSUME NEW t, NEW s \in Seq(Messages), s # << >>, NEW e, NEW f,
           NEW k \in 2 .. Len(s) + 1, CoveredIn(t, s, e, k),
           s[1].ask = "check" => f = e,
           s[1].from = t /\ s[1].ask \in Writes => f
    PROVE  CoveredIn(t, Tail(s), f, k - 1)
<1>1. \A l \in 1 .. Len(s) - 1 : Tail(s)[l] = s[l + 1]
  OBVIOUS
<1>2. Len(s) \in Nat /\ k \in Int
  OBVIOUS
<1>3. CASE e /\ \A l \in 1 .. k - 1 : s[l].ask = "check"
  <2>0. 1 \in 1 .. k - 1
    BY <1>2
  <2>1. f
    BY <1>3, <2>0, Zenon
  <2>2. \A l \in 1 .. (k - 1) - 1 : l + 1 \in 1 .. k - 1 /\ l \in 1 .. Len(s) - 1
    BY <1>2
  <2>3. \A l \in 1 .. (k - 1) - 1 : Tail(s)[l].ask = "check"
    BY <1>1, <1>3, <2>2
  <2> QED
    BY <2>1, <2>3 DEF CoveredIn
<1>4. CASE \E j \in 1 .. k - 1 :
             /\ s[j].from = t /\ s[j].ask \in Writes
             /\ \A l \in j + 1 .. k - 1 : s[l].ask = "check"
  <2>1. PICK j \in 1 .. k - 1 :
             /\ s[j].from = t /\ s[j].ask \in Writes
             /\ \A l \in j + 1 .. k - 1 : s[l].ask = "check"
    BY <1>4
  <2>2. \A l \in j .. (k - 1) - 1 : l + 1 \in j + 1 .. k - 1 /\ l \in 1 .. Len(s) - 1
    BY <1>2
  <2>3. \A l \in j .. (k - 1) - 1 : Tail(s)[l].ask = "check"
    BY <1>1, <2>1, <2>2
  <2>4. CASE j = 1
    BY <2>1, <2>3, <2>4 DEF CoveredIn
  <2>5. CASE j # 1
    <3>1. j - 1 \in 1 .. (k - 1) - 1 /\ j - 1 \in 1 .. Len(s) - 1 /\ (j - 1) + 1 = j
      BY <1>2, <2>5
    <3>2. Tail(s)[j - 1] = s[j]
      BY <1>1, <3>1
    <3>3. \A l \in (j - 1) + 1 .. (k - 1) - 1 : Tail(s)[l].ask = "check"
      BY <2>3, <3>1
    <3> QED
      BY <2>1, <3>1, <3>2, <3>3 DEF CoveredIn
  <2> QED
    BY <2>4, <2>5
<1> QED
  BY <1>3, <1>4 DEF CoveredIn

-----------------------------------------------------------------------------

\* The invariant holds initially.
LEMMA InitIInv == Init => IInv
<1> SUFFICES ASSUME Init PROVE IInv
  OBVIOUS
<1> USE DocumentsAssumption
<1>1. TypeOK
  <2>1. obj \in [Items -> [known : BOOLEAN, filled : BOOLEAN]]
    BY Zenon DEF Init
  <2>2. call \in [Threads -> Calls]
    BY DEF Init, Calls
  <2>3. conn \in Connections /\ wire \in [Connections -> Seq(Messages)]
        /\ err \in [Connections -> BOOLEAN]
    BY DEF Init, Connections
  <2>4. calls \in 0 .. MaxCalls /\ replies \in Seq(Replies) /\ unused \in SUBSET Items
    BY DEF Init
  <2>5. result \in [Threads -> {"none", "returned", "thrown"}]
    BY DEF Init
  <2> QED
    BY <2>1, <2>2, <2>3, <2>4, <2>5 DEF Init, TypeOK
<1>2. \A c \in Connections : Len(wire[c]) = 0
  BY DEF Init
<1>3. /\ SenderActive /\ WriteIsCalls /\ OneWrite /\ NoEarlyCheck
      /\ CallShape /\ Overlaps /\ CheckCovers /\ CheckedTookEffect
      /\ NormalReturnTookEffect
  BY <1>2 DEF Init, SenderActive, WriteIsCalls, OneWrite, NoEarlyCheck, CallShape, Overlaps, Active,
              CheckCovers, CheckedTookEffect, NormalReturnTookEffect
<1> QED
  BY <1>1, <1>3 DEF IInv

-----------------------------------------------------------------------------
(***************************************************************************)
(* Type correctness.                                                       *)
(***************************************************************************)

\* Disowning changes only the sender.
LEMMA DisownedType ==
    ASSUME NEW t, NEW s \in Seq(Messages)
    PROVE  /\ Disowned(t, s) \in Seq(Messages)
           /\ Len(Disowned(t, s)) = Len(s)
           /\ \A k \in 1 .. Len(s) :
                 /\ Disowned(t, s)[k].from = (IF s[k].from = t THEN Nobody ELSE s[k].from)
                 /\ Disowned(t, s)[k].ask = s[k].ask
                 /\ Disowned(t, s)[k].item = s[k].item
                 /\ Disowned(t, s)[k].val = s[k].val
<1> DEFINE d(k) == IF s[k].from = t THEN [s[k] EXCEPT !.from = Nobody] ELSE s[k]
<1>1. \A k \in 1 .. Len(s) : s[k] \in Messages
  OBVIOUS
<1>2. \A k \in 1 .. Len(s) :
         /\ d(k) \in Messages
         /\ d(k).from = (IF s[k].from = t THEN Nobody ELSE s[k].from)
         /\ d(k).ask = s[k].ask /\ d(k).item = s[k].item /\ d(k).val = s[k].val
  BY <1>1 DEF Messages
<1>3. Disowned(t, s) = [k \in 1 .. Len(s) |-> d(k)]
  BY DEF Disowned
<1> HIDE DEF d
<1> QED
  BY <1>2, <1>3

\* Likewise for replies.
LEMMA UnansweredType ==
    ASSUME NEW t, NEW s \in Seq(Replies)
    PROVE  /\ Unanswered(t, s) \in Seq(Replies)
           /\ Len(Unanswered(t, s)) = Len(s)
           /\ \A k \in 1 .. Len(s) :
                 /\ Unanswered(t, s)[k].to = (IF s[k].to = t THEN Nobody ELSE s[k].to)
                 /\ Unanswered(t, s)[k].err = s[k].err
<1> DEFINE d(k) == IF s[k].to = t THEN [s[k] EXCEPT !.to = Nobody] ELSE s[k]
<1>1. \A k \in 1 .. Len(s) : s[k] \in Replies
  OBVIOUS
<1>2. \A k \in 1 .. Len(s) :
         /\ d(k) \in Replies
         /\ d(k).to = (IF s[k].to = t THEN Nobody ELSE s[k].to)
         /\ d(k).err = s[k].err
  BY <1>1 DEF Replies
<1>3. Unanswered(t, s) = [k \in 1 .. Len(s) |-> d(k)]
  BY DEF Unanswered
<1> HIDE DEF d
<1> QED
  BY <1>2, <1>3

\* Types of the messages of a connection.
LEMMA MessageType ==
    ASSUME TypeOK, NEW c \in Connections
    PROVE  /\ wire[c] \in Seq(Messages) /\ Len(wire[c]) \in Nat
           /\ \A k \in 1 .. Len(wire[c]) :
                 /\ wire[c][k] \in Messages
                 /\ wire[c][k].from \in Threads \cup {Nobody}
                 /\ wire[c][k].ask \in Writes \cup {"check", "fetch"}
<1>1. wire[c] \in Seq(Messages)
  BY DEF TypeOK
<1>2. Len(wire[c]) \in Nat /\ \A k \in 1 .. Len(wire[c]) : wire[c][k] \in Messages
  BY <1>1
<1>3. \A m \in Messages : m.from \in Threads \cup {Nobody} /\ m.ask \in Writes \cup {"check", "fetch"}
  BY DEF Messages
<1> QED
  BY <1>1, <1>2, <1>3

\* The replies left after one was taken, or none.
Left(rs) == rs = replies \/ (replies # << >> /\ rs = Tail(replies))

\* What is left of the replies was there before.
LEMMA LeftFrom ==
    ASSUME replies \in Seq(Replies), NEW rs, Left(rs), NEW k \in 1 .. Len(rs)
    PROVE  \E j \in 1 .. Len(replies) : rs[k] = replies[j]
<1>1. CASE rs = replies
  BY <1>1
<1>2. CASE replies # << >> /\ rs = Tail(replies)
  <2>1. Len(rs) = Len(replies) - 1 /\ rs[k] = replies[k + 1] /\ Len(replies) \in Nat
    BY <1>2
  <2> QED
    BY <2>1
<1> QED
  BY <1>1, <1>2 DEF Left

\* The end of a call keeps the types.
LEMMA EndsType ==
    ASSUME TypeOK, NEW t \in Threads, NEW how \in {"returned", "thrown"}, NEW rs, Left(rs),
           Ends(t, how, rs), failed' \in BOOLEAN,
           obj' \in [Items -> [known : BOOLEAN, filled : BOOLEAN]]
    PROVE  TypeOK'
<1>1. rs \in Seq(Replies)
  <2>1. replies \in Seq(Replies)
    BY DEF TypeOK
  <2> QED
    BY <2>1 DEF Left
<1>2. wire' \in [Connections -> Seq(Messages)]
  BY DisownedType DEF TypeOK, Ends
<1>3. replies' \in Seq(Replies)
  BY <1>1, UnansweredType DEF Ends
<1>4. call' \in [Threads -> Calls] /\ call[t].item \in Items
  <2>1. call \in [Threads -> Calls] /\ call' = [call EXCEPT ![t].at = "idle"]
    BY DEF TypeOK, Ends
  <2> QED
    BY <2>1 DEF Calls
<1> QED
  BY <1>2, <1>3, <1>4 DEF TypeOK, Ends, server

\* The type of the message a thread sends.
LEMMA SentType ==
    ASSUME TypeOK, NEW t \in Threads, call[t].at \in Sending,
           call[t].at = "begin" => call[t].ask \in Writes
    PROVE  /\ Sent(t) \in Messages /\ Sent(t).from = t
           /\ call[t].at = "begin" => Sent(t).ask = call[t].ask
           /\ call[t].at \in {"said", "empty"} => Sent(t).ask = "check"
           /\ call[t].at = "fetch" => Sent(t).ask = "fetch"
           /\ Sent(t).item = call[t].item /\ Sent(t).val = call[t].val
           /\ [call EXCEPT ![t].at = After(@)] \in [Threads -> Calls]
<1>1. call[t] \in Calls
  BY DEF TypeOK
<1>2. After(call[t].at) \in {"said", "checking", "fetching", "asking"}
  BY <1>1 DEF After, Sending
<1>3. [call EXCEPT ![t].at = After(@)] \in [Threads -> Calls]
  BY <1>1, <1>2 DEF TypeOK, Calls
<1> QED
  BY <1>1, <1>3 DEF Sent, Sending, Calls, Messages

-----------------------------------------------------------------------------
(***************************************************************************)
(* The inductive invariant, one lemma per kind of step.                    *)
(***************************************************************************)

\* A call begins.
LEMMA BeginStep ==
    ASSUME IInv, NEW t \in Threads, NEW at \in {"begin", "fetch"},
           NEW ask \in Writes \cup {"load"}, NEW i \in Items, NEW v \in Values,
           at = "begin" <=> ask \in Writes,
           Begin(t, at, ask, i, v),
           obj' \in [Items -> [known : BOOLEAN, filled : BOOLEAN]],
           unused' \in SUBSET Items
    PROVE  IInv'
<1>1. /\ t \notin Active
      /\ call' = [call EXCEPT ![t] = [at |-> at, ask |-> ask, item |-> i, val |-> v]]
      /\ result' = [result EXCEPT ![t] = "none"]
      /\ applied' = applied \ {t} /\ mixed' = mixed \ {t}
      /\ overlap' = IF Active = {} THEN overlap \ {t} ELSE overlap \cup Active \cup {t}
      /\ UNCHANGED <<conn, up, failed, doc, err, wire, replies, cut, doubtful>>
  BY DEF Begin, client, server
<1>2. TypeOK'
  <2>1. [at |-> at, ask |-> ask, item |-> i, val |-> v] \in Calls
    BY DEF Calls
  <2>2. call' \in [Threads -> Calls]
    BY <1>1, <2>1 DEF IInv, TypeOK
  <2>3. calls' \in 0 .. MaxCalls
    BY DocumentsAssumption DEF IInv, TypeOK, Begin
  <2>4. result' \in [Threads -> {"none", "returned", "thrown"}]
    BY <1>1 DEF IInv, TypeOK
  <2>5. overlap' \in SUBSET Threads
    BY <1>1 DEF IInv, TypeOK, Active
  <2> QED
    BY <1>1, <2>2, <2>3, <2>4, <2>5 DEF IInv, TypeOK
<1>3. /\ \A u \in Threads \ {t} : call'[u] = call[u]
      /\ call'[t].at = at /\ call'[t].ask = ask
      /\ call[t].at = "idle"
      /\ \A c \in Connections : \A k \in 1 .. Len(wire[c]) :
            wire[c][k].from \in Threads \cup {Nobody} /\ wire[c][k].from # t
  <2>1. call \in [Threads -> Calls] /\ wire \in [Connections -> Seq(Messages)]
        /\ SenderActive
    BY DEF IInv, TypeOK
  <2>2. call[t].at = "idle"
    BY <1>1 DEF Active
  <2>3. \A c \in Connections : \A k \in 1 .. Len(wire[c]) : wire[c][k] \in Messages
    BY <2>1
  <2> QED
    BY <1>1, <2>1, <2>2, <2>3, DocumentsAssumption DEF SenderActive, Messages
<1>4. SenderActive' /\ WriteIsCalls' /\ OneWrite'
  <2>1. SenderActive /\ WriteIsCalls /\ OneWrite
    BY DEF IInv
  <2>2. SenderActive'
    BY <1>1, <1>3, <2>1 DEF SenderActive
  <2>3. WriteIsCalls'
    BY <1>1, <1>3, <2>1 DEF WriteIsCalls
  <2>4. OneWrite'
    BY <1>1, <2>1 DEF OneWrite
  <2> QED
    BY <2>2, <2>3, <2>4
<1>5. CallShape' /\ NoEarlyCheck'
  BY <1>1, <1>3 DEF IInv, CallShape, NoEarlyCheck
<1>6. Overlaps'
  <2>1. Active' = Active \cup {t}
    BY <1>1, <1>3 DEF Active
  <2> QED
    BY <1>1, <1>3, <2>1 DEF IInv, Overlaps, Active
<1>7. CheckCovers'
  <2>1. \A u, c, k : Covered(u, c, k)' <=> Covered(u, c, k)
    BY <1>1 DEF Covered
  <2> QED
    BY <1>1, <1>3, <2>1 DEF IInv, CheckCovers
<1>8. CheckedTookEffect' /\ NormalReturnTookEffect'
  BY <1>1, <1>3 DEF IInv, TypeOK, CheckedTookEffect, NormalReturnTookEffect, Writes
<1> QED
  BY <1>2, <1>4, <1>5, <1>6, <1>7, <1>8 DEF IInv

\* t ends its call.
LEMMA EndStep ==
    ASSUME IInv, NEW t \in Active, NEW how \in {"returned", "thrown"}, NEW rs, Left(rs),
           Ends(t, how, rs),
           how = "returned" => call[t].ask = "load" \/ t \in applied \cup mixed,
           failed' \in BOOLEAN,
           obj' \in [Items -> [known : BOOLEAN, filled : BOOLEAN]]
    PROVE  IInv'
<1> t \in Threads
  BY DEF Active
<1>1. TypeOK'
  BY EndsType DEF IInv
<1>2. /\ call' = [call EXCEPT ![t].at = "idle"]
      /\ wire' = [c \in Connections |-> Disowned(t, wire[c])]
      /\ replies' = Unanswered(t, rs)
      /\ result' = [result EXCEPT ![t] = how]
      /\ UNCHANGED <<conn, up, err, applied, mixed, overlap>>
  BY DEF Ends, server
<1>3. /\ call \in [Threads -> Calls] /\ wire \in [Connections -> Seq(Messages)]
      /\ replies \in Seq(Replies) /\ rs \in Seq(Replies)
      /\ result \in [Threads -> {"none", "returned", "thrown"}]
      /\ conn \in Connections
  <2>1. replies \in Seq(Replies)
    BY DEF IInv, TypeOK
  <2>2. rs \in Seq(Replies)
    BY <2>1 DEF Left
  <2> QED
    BY <2>1, <2>2 DEF IInv, TypeOK
<1>4. /\ \A u \in Threads \ {t} : call'[u] = call[u]
      /\ call'[t].at = "idle" /\ call'[t].ask = call[t].ask
      /\ call'[t].item = call[t].item /\ call'[t].val = call[t].val
  BY <1>2, <1>3 DEF Calls
<1>5. \A c \in Connections :
        /\ Len(wire'[c]) = Len(wire[c])
        /\ \A k \in 1 .. Len(wire[c]) :
              /\ wire'[c][k].from = (IF wire[c][k].from = t THEN Nobody ELSE wire[c][k].from)
              /\ wire'[c][k].ask = wire[c][k].ask
              /\ wire'[c][k].item = wire[c][k].item
              /\ wire'[c][k].val = wire[c][k].val
              /\ wire[c][k].from \in Threads \cup {Nobody}
  <2> SUFFICES ASSUME NEW c \in Connections
               PROVE  /\ Len(wire'[c]) = Len(wire[c])
                      /\ \A k \in 1 .. Len(wire[c]) :
                            /\ wire'[c][k].from = (IF wire[c][k].from = t THEN Nobody ELSE wire[c][k].from)
                            /\ wire'[c][k].ask = wire[c][k].ask
                            /\ wire'[c][k].item = wire[c][k].item
                            /\ wire'[c][k].val = wire[c][k].val
                            /\ wire[c][k].from \in Threads \cup {Nobody}
    OBVIOUS
  <2>1. wire'[c] = Disowned(t, wire[c]) /\ wire[c] \in Seq(Messages)
    BY <1>2, <1>3
  <2>2. \A k \in 1 .. Len(wire[c]) : wire[c][k].from \in Threads \cup {Nobody}
    BY MessageType DEF IInv
  <2> QED
    BY <2>1, <2>2, DisownedType
<1>6. SenderActive' /\ WriteIsCalls' /\ OneWrite'
  <2>1. SenderActive'
    BY <1>4, <1>5 DEF IInv, SenderActive
  <2>2. WriteIsCalls'
    BY <1>2, <1>4, <1>5 DEF IInv, WriteIsCalls
  <2>3. OneWrite'
    <3>1. OneWrite
      BY DEF IInv
    <3>2. \A c \in Connections : \A k \in 1 .. Len(wire'[c]) :
            wire'[c][k].from # Nobody =>
               k \in 1 .. Len(wire[c]) /\ wire'[c][k].from = wire[c][k].from
               /\ wire'[c][k].ask = wire[c][k].ask
      BY <1>5
    <3> SUFFICES ASSUME NEW c \in Connections, NEW d \in Connections,
                        NEW k \in 1 .. Len(wire'[c]), NEW l \in 1 .. Len(wire'[d]),
                        wire'[c][k].from # Nobody, wire'[c][k].from = wire'[d][l].from,
                        wire'[c][k].ask \in Writes, wire'[d][l].ask \in Writes
                 PROVE  c = d /\ k = l
      BY DEF OneWrite
    <3>3. /\ k \in 1 .. Len(wire[c]) /\ wire'[c][k].from = wire[c][k].from
          /\ wire'[c][k].ask = wire[c][k].ask
          /\ l \in 1 .. Len(wire[d]) /\ wire'[d][l].from = wire[d][l].from
          /\ wire'[d][l].ask = wire[d][l].ask
      BY <3>2
    <3>4. /\ wire[c][k].from # Nobody /\ wire[c][k].from = wire[d][l].from
          /\ wire[c][k].ask \in Writes /\ wire[d][l].ask \in Writes
      BY <3>3, Zenon
    <3>5. k \in 1 .. Len(wire[c]) /\ l \in 1 .. Len(wire[d])
      BY <3>3
    <3> QED
      BY <3>1, <3>4, <3>5, Zenon DEF OneWrite
  <2> QED
    BY <2>1, <2>2, <2>3
<1>7. CallShape' /\ NoEarlyCheck'
  <2>1. CallShape'
    BY <1>2, <1>4 DEF IInv, CallShape
  <2>2. ASSUME NEW u \in Threads, call'[u].at \in {"idle", "begin", "said"},
               NEW c \in Connections, NEW k \in 1 .. Len(wire'[c]), wire'[c][k].from = u
        PROVE  wire'[c][k].ask \in Writes
    <3>1. u # t /\ wire[c][k].from = u /\ wire'[c][k].ask = wire[c][k].ask
          /\ k \in 1 .. Len(wire[c])
      BY <1>5, <2>2, DocumentsAssumption
    <3> QED
      BY <1>4, <2>2, <3>1 DEF IInv, NoEarlyCheck
  <2>3. ASSUME NEW u \in Threads, call'[u].at \in {"idle", "begin", "said"},
               NEW k \in 1 .. Len(replies'), replies'[k].to = u
        PROVE  FALSE
    <3>1. k \in 1 .. Len(rs)
          /\ replies'[k].to = (IF rs[k].to = t THEN Nobody ELSE rs[k].to)
      BY <1>2, <1>3, UnansweredType
    <3>2. u # t /\ rs[k].to = u
      BY <2>3, <3>1, DocumentsAssumption
    <3>3. \E j \in 1 .. Len(replies) : rs[k] = replies[j]
      BY <1>3, <3>1, LeftFrom
    <3> QED
      BY <1>4, <2>3, <3>2, <3>3 DEF IInv, NoEarlyCheck
  <2> QED
    BY <2>1, <2>2, <2>3 DEF NoEarlyCheck
<1>8. Overlaps'
  BY <1>2, <1>4 DEF IInv, Overlaps, Active
<1>9. CheckCovers'
  <2> SUFFICES ASSUME NEW u \in Threads \ (applied \cup mixed), u # t
               PROVE  /\ call[u].at = "said" /\ up => Covered(u, conn, Len(wire[conn]) + 1)'
                      /\ call[u].at = "checking" =>
                            /\ \A c \in Connections : \A k \in 1 .. Len(wire[c]) :
                                  wire'[c][k].from = u /\ wire'[c][k].ask = "check" => Covered(u, c, k)'
                            /\ \A k \in 1 .. Len(replies') : replies'[k].to = u => replies'[k].err
    BY <1>2, <1>4, <1>5 DEF CheckCovers
  <2>1. \A c \in Connections : \A k \in 1 .. Len(wire[c]) + 1 : Covered(u, c, k) => Covered(u, c, k)'
    <3> SUFFICES ASSUME NEW c \in Connections, NEW k \in 1 .. Len(wire[c]) + 1, Covered(u, c, k)
                 PROVE  Covered(u, c, k)'
      OBVIOUS
    <3>1. Len(wire[c]) \in Nat /\ err'[c] = err[c]
      BY <1>2, <1>3
    <3>2. \A l \in 1 .. k - 1 : l \in 1 .. Len(wire[c])
      BY <3>1
    <3>3. \A l \in 1 .. k - 1 :
             wire'[c][l].ask = wire[c][l].ask /\ (wire[c][l].from = u => wire'[c][l].from = u)
      BY <3>2, <1>5
    <3> QED
      BY <3>1, <3>3, CoveredSame DEF Covered
  <2>2. call[u].at = "said" /\ up => Covered(u, conn, Len(wire[conn]) + 1)'
    <3>1. Len(wire[conn]) \in Nat /\ Len(wire'[conn']) = Len(wire[conn]) /\ conn' = conn
      BY <1>2, <1>3, <1>5
    <3>2. call[u].at = "said" /\ up => Covered(u, conn, Len(wire[conn]) + 1)
      BY DEF IInv, CheckCovers
    <3> QED
      BY <2>1, <3>1, <3>2, <1>3
  <2>3. ASSUME call[u].at = "checking", NEW c \in Connections, NEW k \in 1 .. Len(wire[c]),
               wire'[c][k].from = u, wire'[c][k].ask = "check"
        PROVE  Covered(u, c, k)'
    <3>1. Len(wire[c]) \in Nat
      BY <1>3
    <3>2. wire[c][k].from = u /\ wire[c][k].ask = "check"
      BY <1>5, <2>3, DocumentsAssumption
    <3> QED
      BY <2>1, <2>3, <3>1, <3>2 DEF IInv, CheckCovers
  <2>4. ASSUME call[u].at = "checking", NEW k \in 1 .. Len(replies'), replies'[k].to = u
        PROVE  replies'[k].err
    <3>0. Len(replies') = Len(rs) /\ k \in 1 .. Len(rs)
      BY <1>2, <1>3, UnansweredType
    <3>1. rs[k].to = u /\ replies'[k].err = rs[k].err
      <4>1. /\ replies'[k].to = (IF rs[k].to = t THEN Nobody ELSE rs[k].to)
            /\ replies'[k].err = rs[k].err
        BY <1>2, <1>3, <3>0, UnansweredType
      <4> QED
        BY <2>4, <4>1, DocumentsAssumption
    <3>2. \E j \in 1 .. Len(replies) : rs[k] = replies[j]
      BY <1>3, <3>0, LeftFrom
    <3> QED
      BY <2>4, <3>1, <3>2 DEF IInv, CheckCovers
  <2> QED
    BY <2>2, <2>3, <2>4
<1>10. CheckedTookEffect' /\ NormalReturnTookEffect'
  BY <1>2, <1>3, <1>4 DEF IInv, CheckedTookEffect, NormalReturnTookEffect
<1> QED
  BY <1>1, <1>6, <1>7, <1>8, <1>9, <1>10 DEF IInv

\* t sends on connection d, or, when d is 0, into a dead socket.
SendsOn(t, d) ==
    /\ call[t].at \in Sending
    /\ wire' = [c \in Connections |-> IF c = d THEN Append(wire[c], Sent(t)) ELSE wire[c]]
    /\ call' = [call EXCEPT ![t].at = After(@)]
    /\ mixed \subseteq mixed' /\ mixed' \subseteq Threads
    /\ conn' \in Connections /\ up' \in BOOLEAN /\ failed' \in BOOLEAN
    /\ replies' \in {replies, << >>} /\ cut' \in SUBSET Threads
    /\ UNCHANGED <<calls, item, server, result, applied, overlap, doubtful>>

\* A send appends one message.
LEMMA SendsGrow ==
    ASSUME IInv, NEW t \in Threads, NEW d \in Connections \cup {0}, SendsOn(t, d)
    PROVE  /\ \A c \in Connections :
                 /\ Len(wire[c]) \in Nat
                 /\ Len(wire'[c]) = IF c = d THEN Len(wire[c]) + 1 ELSE Len(wire[c])
                 /\ wire'[c] \in Seq(Messages)
                 /\ \A k \in 1 .. Len(wire[c]) : wire'[c][k] = wire[c][k]
                 /\ c = d => wire'[c][Len(wire[c]) + 1] = Sent(t)
                 /\ \A k \in 1 .. Len(wire'[c]) :
                       k \in 1 .. Len(wire[c]) \/ (c = d /\ k = Len(wire[c]) + 1)
           /\ \A u \in Threads \ {t} : call'[u] = call[u]
           /\ call'[t].at = After(call[t].at) /\ call'[t].ask = call[t].ask
           /\ call'[t].item = call[t].item /\ call'[t].val = call[t].val
<1>1. Sent(t) \in Messages
  BY SentType DEF IInv, CallShape, SendsOn
<1>2. call \in [Threads -> Calls]
  BY DEF IInv, TypeOK
<1>3. ASSUME NEW c \in Connections
      PROVE  /\ Len(wire[c]) \in Nat
             /\ Len(wire'[c]) = IF c = d THEN Len(wire[c]) + 1 ELSE Len(wire[c])
             /\ wire'[c] \in Seq(Messages)
             /\ \A k \in 1 .. Len(wire[c]) : wire'[c][k] = wire[c][k]
             /\ c = d => wire'[c][Len(wire[c]) + 1] = Sent(t)
             /\ \A k \in 1 .. Len(wire'[c]) :
                   k \in 1 .. Len(wire[c]) \/ (c = d /\ k = Len(wire[c]) + 1)
  <2>1. wire[c] \in Seq(Messages) /\ Len(wire[c]) \in Nat
    BY MessageType DEF IInv
  <2>2. wire'[c] = IF c = d THEN Append(wire[c], Sent(t)) ELSE wire[c]
    BY DEF SendsOn
  <2> QED
    BY <1>1, <2>1, <2>2
<1>4. /\ \A u \in Threads \ {t} : call'[u] = call[u]
      /\ call'[t].at = After(call[t].at) /\ call'[t].ask = call[t].ask
      /\ call'[t].item = call[t].item /\ call'[t].val = call[t].val
  BY <1>2 DEF SendsOn, Calls
<1> QED
  BY <1>3, <1>4

\* What every send keeps.
LEMMA SendKeeps ==
    ASSUME IInv, NEW t \in Threads, NEW d \in Connections \cup {0}, SendsOn(t, d)
    PROVE  /\ TypeOK' /\ SenderActive' /\ WriteIsCalls' /\ OneWrite' /\ NoEarlyCheck' /\ CallShape'
           /\ CheckedTookEffect' /\ NormalReturnTookEffect'
<1>1. /\ Sent(t) \in Messages /\ Sent(t).from = t
      /\ call[t].at = "begin" => Sent(t).ask = call[t].ask
      /\ call[t].at \in {"said", "empty"} => Sent(t).ask = "check"
      /\ call[t].at = "fetch" => Sent(t).ask = "fetch"
      /\ Sent(t).item = call[t].item /\ Sent(t).val = call[t].val
      /\ call' \in [Threads -> Calls]
  BY SentType DEF IInv, CallShape, SendsOn
<1>2. /\ call[t].at = "begin" => After(call[t].at) = "said"
      /\ call[t].at = "said" => After(call[t].at) = "checking"
      /\ call[t].at = "fetch" => After(call[t].at) = "fetching"
      /\ call[t].at = "empty" => After(call[t].at) = "asking"
      /\ call[t].at \in Sending /\ call[t].at # "idle"
  BY DEF After, Sending, SendsOn
<1>3. Sent(t).ask \in Writes => call[t].at = "begin"
  BY <1>1, <1>2 DEF Sending, Writes
<1>4. TypeOK'
  <2>1. wire' \in [Connections -> Seq(Messages)]
    BY SendsGrow DEF SendsOn
  <2>2. replies' \in Seq(Replies)
    <3>1. replies \in Seq(Replies) /\ replies' \in {replies, << >>}
      BY DEF IInv, TypeOK, SendsOn
    <3>2. << >> \in Seq(Replies)
      OBVIOUS
    <3> QED
      BY <3>1, <3>2, Zenon
  <2> QED
    BY <1>1, <2>1, <2>2 DEF IInv, TypeOK, SendsOn, item, server
<1>5. SenderActive'
  <2> SUFFICES ASSUME NEW c \in Connections, NEW k \in 1 .. Len(wire'[c]),
                      wire'[c][k].from # Nobody
               PROVE  call'[wire'[c][k].from].at \notin {"idle", "begin"}
    BY DEF SenderActive
  <2>0. call'[t].at \notin {"idle", "begin"}
    BY <1>2, SendsGrow DEF Sending
  <2>1. CASE k \in 1 .. Len(wire[c])
    <3>1. wire'[c][k] = wire[c][k] /\ wire[c][k].from \in Threads
      BY <2>1, SendsGrow, MessageType DEF IInv
    <3>2. call[wire[c][k].from].at \notin {"idle", "begin"}
      BY <2>1, <3>1 DEF IInv, SenderActive
    <3> QED
      BY <2>0, <3>1, <3>2, SendsGrow
  <2>2. CASE c = d /\ k = Len(wire[c]) + 1
    BY <2>0, <2>2, <1>1, SendsGrow
  <2> QED
    BY <2>1, <2>2, SendsGrow
<1>6. WriteIsCalls'
  <2> SUFFICES ASSUME NEW c \in Connections, NEW k \in 1 .. Len(wire'[c]),
                      wire'[c][k].from # Nobody, wire'[c][k].ask \in Writes
               PROVE  /\ wire'[c][k].from \notin applied
                      /\ wire'[c][k].ask = call'[wire'[c][k].from].ask
                      /\ wire'[c][k].item = call'[wire'[c][k].from].item
                      /\ wire'[c][k].val = call'[wire'[c][k].from].val
    BY DEF WriteIsCalls, SendsOn
  <2>1. CASE k \in 1 .. Len(wire[c])
    <3>1. wire'[c][k] = wire[c][k] /\ wire[c][k].from \in Threads
      BY <2>1, SendsGrow, MessageType DEF IInv
    <3>2. /\ wire[c][k].from \notin applied
          /\ wire[c][k].ask = call[wire[c][k].from].ask
          /\ wire[c][k].item = call[wire[c][k].from].item
          /\ wire[c][k].val = call[wire[c][k].from].val
      BY <2>1, <3>1 DEF IInv, WriteIsCalls
    <3> QED
      BY <3>1, <3>2, SendsGrow
  <2>2. CASE c = d /\ k = Len(wire[c]) + 1
    <3>1. wire'[c][k] = Sent(t)
      BY <2>2, SendsGrow
    <3> QED
      BY <3>1, <1>1, <1>3, SendsGrow DEF IInv, CallShape
  <2> QED
    BY <2>1, <2>2, SendsGrow
<1>7. OneWrite'
  <2> SUFFICES ASSUME NEW c \in Connections, NEW e \in Connections,
                      NEW k \in 1 .. Len(wire'[c]), NEW l \in 1 .. Len(wire'[e]),
                      wire'[c][k].from # Nobody, wire'[c][k].from = wire'[e][l].from,
                      wire'[c][k].ask \in Writes, wire'[e][l].ask \in Writes
               PROVE  c = e /\ k = l
    BY DEF OneWrite
  <2>1. \A x \in Connections : \A j \in 1 .. Len(wire'[x]) :
           wire'[x][j].ask \in Writes /\ wire'[x][j].from # Nobody =>
               \/ j \in 1 .. Len(wire[x]) /\ wire'[x][j] = wire[x][j]
                     /\ call[wire[x][j].from].at # "begin"
               \/ x = d /\ j = Len(wire[x]) + 1 /\ wire'[x][j].from = t /\ call[t].at = "begin"
    BY SendsGrow, <1>1, <1>3 DEF IInv, SenderActive
  <2>2. \/ k \in 1 .. Len(wire[c]) /\ wire'[c][k] = wire[c][k]
              /\ call[wire[c][k].from].at # "begin"
        \/ c = d /\ k = Len(wire[c]) + 1 /\ wire'[c][k].from = t /\ call[t].at = "begin"
    BY <2>1
  <2>3. \/ l \in 1 .. Len(wire[e]) /\ wire'[e][l] = wire[e][l]
              /\ call[wire[e][l].from].at # "begin"
        \/ e = d /\ l = Len(wire[e]) + 1 /\ wire'[e][l].from = t /\ call[t].at = "begin"
    BY <2>1
  <2>4. CASE k \in 1 .. Len(wire[c]) /\ wire'[c][k] = wire[c][k]
             /\ l \in 1 .. Len(wire[e]) /\ wire'[e][l] = wire[e][l]
    BY <2>4 DEF IInv, OneWrite
  <2> QED
    BY <2>2, <2>3, <2>4
<1>8. CallShape' /\ NoEarlyCheck'
  <2>1. CallShape'
    BY <1>2, SendsGrow DEF IInv, CallShape, Sending, SendsOn
  <2>2. ASSUME NEW u \in Threads, call'[u].at \in {"idle", "begin", "said"}
        PROVE  call[u].at \in {"idle", "begin", "said"} /\ (u = t => call[t].at = "begin")
    BY <1>2, <2>2, SendsGrow DEF Sending
  <2>3. ASSUME NEW u \in Threads, call'[u].at \in {"idle", "begin", "said"},
               NEW c \in Connections, NEW k \in 1 .. Len(wire'[c]), wire'[c][k].from = u
        PROVE  wire'[c][k].ask \in Writes
    <3>1. CASE k \in 1 .. Len(wire[c])
      <4>1. wire'[c][k] = wire[c][k]
        BY <3>1, SendsGrow
      <4> QED
        BY <2>2, <2>3, <3>1, <4>1 DEF IInv, NoEarlyCheck
    <3>2. CASE c = d /\ k = Len(wire[c]) + 1
      <4>1. wire'[c][k] = Sent(t)
        BY <3>2, SendsGrow
      <4>2. call[t].at = "begin"
        BY <1>1, <2>2, <2>3, <4>1
      <4> QED
        BY <1>1, <4>1, <4>2 DEF IInv, CallShape
    <3> QED
      BY <3>1, <3>2, SendsGrow
  <2>4. ASSUME NEW u \in Threads, call'[u].at \in {"idle", "begin", "said"},
               NEW k \in 1 .. Len(replies')
        PROVE  replies'[k].to # u
    BY <2>2, <2>4 DEF IInv, NoEarlyCheck, SendsOn
  <2> QED
    BY <2>1, <2>3, <2>4 DEF NoEarlyCheck
<1>9. CheckedTookEffect' /\ NormalReturnTookEffect'
  BY <1>2, SendsGrow DEF IInv, CheckedTookEffect, NormalReturnTookEffect, Sending, SendsOn
<1> QED
  BY <1>4, <1>5, <1>6, <1>7, <1>8, <1>9

\* A message that is no check is after the write of nobody who has said it.
LEMMA SayStep ==
    ASSUME IInv, NEW t \in Threads, Say(t)
    PROVE  IInv'
<1> DEFINE d == IF up THEN conn ELSE 0
<1>1. d \in Connections \cup {0} /\ conn \in Connections /\ 0 \notin Connections
  BY DEF IInv, TypeOK, Connections
<1>2. SendsOn(t, d)
  <2>1. wire' = [c \in Connections |-> IF c = d THEN Append(wire[c], Sent(t)) ELSE wire[c]]
    <3>1. wire \in [Connections -> Seq(Messages)]
      BY DEF IInv, TypeOK
    <3> QED
      BY <1>1, <3>1 DEF Say
  <2> QED
    BY <2>1 DEF Say, SendsOn, IInv, TypeOK, client
<1> HIDE DEF d
<1>g. /\ \A c \in Connections :
            /\ Len(wire[c]) \in Nat
            /\ Len(wire'[c]) = IF c = d THEN Len(wire[c]) + 1 ELSE Len(wire[c])
            /\ \A k \in 1 .. Len(wire[c]) : wire'[c][k] = wire[c][k]
            /\ c = d => wire'[c][Len(wire[c]) + 1] = Sent(t)
            /\ \A k \in 1 .. Len(wire'[c]) :
                  k \in 1 .. Len(wire[c]) \/ (c = d /\ k = Len(wire[c]) + 1)
      /\ \A u \in Threads \ {t} : call'[u] = call[u]
      /\ call'[t].at = After(call[t].at)
  BY <1>1, <1>2, SendsGrow
<1>3. /\ Sent(t).from = t
      /\ call[t].at = "begin" => Sent(t).ask = call[t].ask /\ call[t].ask \in Writes
      /\ call[t].at \in {"said", "empty"} => Sent(t).ask = "check"
      /\ call[t].at = "fetch" => Sent(t).ask = "fetch"
  BY <1>2, SentType DEF IInv, CallShape, SendsOn
<1>4. /\ ~ failed /\ call[t].at \in Sending
      /\ UNCHANGED <<conn, up, failed, replies, err, applied, overlap>>
      /\ mixed' = mixed \cup {u \in Threads \ {t} : call[u].at = "said" /\ Sent(t).ask # "check"}
  BY DEF Say, client, server
<1>5. /\ After("begin") = "said" /\ After("said") = "checking"
      /\ After("fetch") = "fetching" /\ After("empty") = "asking"
  BY DEF After
<1>6. Overlaps'
  <2>1. Active' = Active /\ t \in Active
    BY <1>2, <1>4, <1>5, <1>g DEF Active, Sending
  <2> QED
    BY <1>4, <2>1 DEF IInv, Overlaps, Active
<1>7. CheckCovers'
  <2> SUFFICES ASSUME NEW u \in Threads \ (applied \cup mixed')
               PROVE  /\ call'[u].at = "said" /\ up =>
                            CoveredIn(u, wire'[conn], err[conn], Len(wire'[conn]) + 1)
                      /\ call'[u].at = "checking" =>
                            /\ \A c \in Connections : \A k \in 1 .. Len(wire'[c]) :
                                  wire'[c][k].from = u /\ wire'[c][k].ask = "check" =>
                                      CoveredIn(u, wire'[c], err[c], k)
                            /\ \A k \in 1 .. Len(replies) : replies[k].to = u => replies[k].err
    BY <1>4 DEF CheckCovers, Covered
  <2>1. u \in Threads \ (applied \cup mixed)
    BY <1>4
  <2>2. ASSUME NEW c \in Connections, NEW k \in 1 .. Len(wire[c]) + 1, Covered(u, c, k)
        PROVE  CoveredIn(u, wire'[c], err[c], k)
    <3>1. \A l \in 1 .. k - 1 : l \in 1 .. Len(wire[c]) /\ wire'[c][l] = wire[c][l]
      BY <1>1, <1>2, <1>g
    <3>2. k \in Nat /\ err' = err
      BY <1>1, <1>2, <1>4, <1>g
    <3> QED
      BY <2>2, <3>1, <3>2, CoveredSame DEF Covered
  <2>3. ASSUME up, call'[u].at = "said"
        PROVE  CoveredIn(u, wire'[conn], err[conn], Len(wire'[conn]) + 1)
    <3>0. d = conn
      BY <2>3 DEF d
    <3>1. /\ Len(wire[conn]) \in Nat /\ Len(wire'[conn]) = Len(wire[conn]) + 1
          /\ wire'[conn][Len(wire[conn]) + 1] = Sent(t)
          /\ \A l \in 1 .. Len(wire[conn]) : wire'[conn][l] = wire[conn][l]
      BY <1>1, <1>2, <3>0, <1>g
    <3>2. CASE u = t
      <4>1. call[t].at = "begin"
        BY <1>2, <1>4, <1>5, <2>3, <3>2, <1>g DEF Sending
      <4>2. wire'[conn][Len(wire[conn]) + 1].from = u /\ wire'[conn][Len(wire[conn]) + 1].ask \in Writes
        BY <1>3, <3>1, <3>2, <4>1
      <4> QED
        BY <3>1, <4>2 DEF CoveredIn
    <3>3. CASE u # t
      <4>1. call[u].at = "said" /\ Sent(t).ask = "check"
        BY <1>2, <1>4, <2>3, <3>3, <1>g
      <4>2. Covered(u, conn, Len(wire[conn]) + 1)
        BY <2>1, <2>3, <4>1 DEF IInv, CheckCovers
      <4>3. CoveredIn(u, wire'[conn], err[conn], Len(wire[conn]) + 1)
        BY <1>1, <2>2, <3>1, <4>2
      <4>4. wire'[conn][Len(wire[conn]) + 1].ask = "check"
        BY <3>1, <4>1
      <4>5. CoveredIn(u, wire'[conn], err[conn], (Len(wire[conn]) + 1) + 1)
        <5> DEFINE n == Len(wire[conn]) + 1
        <5>1. n \in Nat
          BY <3>1
        <5> HIDE DEF n
        <5> QED
          BY <5>1, <4>3, <4>4, CoveredPastCheck DEF n
      <4> QED
        BY <3>1, <4>5
    <3> QED
      BY <3>2, <3>3
  <2>4. ASSUME call'[u].at = "checking", NEW c \in Connections, NEW k \in 1 .. Len(wire'[c]),
               wire'[c][k].from = u, wire'[c][k].ask = "check"
        PROVE  CoveredIn(u, wire'[c], err[c], k)
    <3>1. CASE u # t
      <4>1. call[u].at = "checking" /\ k \in 1 .. Len(wire[c]) /\ wire'[c][k] = wire[c][k]
        BY <1>1, <1>2, <1>3, <2>4, <3>1, <1>g
      <4>2. Covered(u, c, k)
        BY <2>1, <2>4, <4>1 DEF IInv, CheckCovers
      <4>3. k \in 1 .. Len(wire[c]) + 1
        BY <1>g, <4>1
      <4> QED
        BY <2>2, <4>2, <4>3
    <3>2. CASE u = t
      <4>1. call[t].at = "said"
        BY <1>2, <1>4, <1>5, <2>4, <3>2, <1>g DEF Sending
      <4>2. CASE k \in 1 .. Len(wire[c])
        <5>1. wire[c][k].from = t /\ wire[c][k].ask = "check"
          BY <2>4, <3>2, <4>2, <1>g
        <5>2. wire[c][k].ask \in Writes
          BY <4>1, <4>2, <5>1 DEF IInv, NoEarlyCheck
        <5> QED
          BY <5>1, <5>2 DEF Writes
      <4>3. CASE c = d /\ k = Len(wire[c]) + 1
        <5>1. up /\ c = conn
          BY <1>1, <4>3 DEF d
        <5>2. Covered(u, c, k)
          BY <2>1, <3>2, <4>1, <4>3, <5>1 DEF IInv, CheckCovers
        <5> QED
          BY <1>1, <1>2, <2>2, <4>3, <5>2, <1>g
      <4> QED
        BY <1>1, <1>2, <4>2, <4>3, <1>g
    <3> QED
      BY <3>1, <3>2
  <2>5. ASSUME call'[u].at = "checking", NEW k \in 1 .. Len(replies), replies[k].to = u
        PROVE  replies[k].err
    <3>1. CASE u # t
      BY <1>2, <2>1, <2>5, <3>1, <1>g DEF IInv, CheckCovers
    <3>2. CASE u = t
      <4>1. call[t].at = "said"
        BY <1>2, <1>4, <1>5, <2>5, <3>2, <1>g DEF Sending
      <4> QED
        BY <2>5, <3>2, <4>1 DEF IInv, NoEarlyCheck
    <3> QED
      BY <3>1, <3>2
  <2> QED
    BY <2>3, <2>4, <2>5
<1> QED
  BY <1>1, <1>2, <1>6, <1>7, SendKeeps DEF IInv

\* A message goes out on a new connection.
LEMMA ReconnectStep ==
    ASSUME IInv, NEW t \in Threads, Reconnect(t)
    PROVE  IInv'
<1> DEFINE d == conn + 1
<1>1. d \in Connections /\ conn \in Connections /\ 0 \notin Connections /\ conn' = d
  BY DocumentsAssumption DEF IInv, TypeOK, Connections, Reconnect
<1>2. SendsOn(t, d)
  <2>1. wire' = [c \in Connections |-> IF c = d THEN Append(wire[c], Sent(t)) ELSE wire[c]]
    <3>1. wire \in [Connections -> Seq(Messages)]
      BY DEF IInv, TypeOK
    <3> QED
      BY <1>1, <3>1 DEF Reconnect
  <2>2. mixed \subseteq mixed' /\ mixed' \subseteq Threads /\ cut' \in SUBSET Threads
    BY DEF Reconnect, IInv, TypeOK, Waiting
  <2> QED
    BY <1>1, <2>1, <2>2 DEF Reconnect, SendsOn, IInv, TypeOK
<1> HIDE DEF d
<1>3. /\ Sent(t).from = t
      /\ call[t].at = "begin" => Sent(t).ask = call[t].ask /\ call[t].ask \in Writes
      /\ call[t].at = "said" => t \in mixed'
  BY <1>2, SentType DEF IInv, CallShape, SendsOn, Reconnect
<1>4. /\ failed /\ ~ failed' /\ call[t].at \in Sending
      /\ replies' = << >> /\ UNCHANGED <<err, applied, overlap>>
      /\ mixed' = mixed \cup {u \in Threads : call[u].at = "said"}
  BY DEF Reconnect, server
<1>5. /\ After("begin") = "said" /\ After("said") = "checking"
      /\ After("fetch") = "fetching" /\ After("empty") = "asking"
  BY DEF After
<1>g. /\ \A c \in Connections :
            /\ Len(wire[c]) \in Nat
            /\ Len(wire'[c]) = IF c = d THEN Len(wire[c]) + 1 ELSE Len(wire[c])
            /\ \A k \in 1 .. Len(wire[c]) : wire'[c][k] = wire[c][k]
            /\ c = d => wire'[c][Len(wire[c]) + 1] = Sent(t)
            /\ \A k \in 1 .. Len(wire'[c]) :
                  k \in 1 .. Len(wire[c]) \/ (c = d /\ k = Len(wire[c]) + 1)
      /\ \A u \in Threads \ {t} : call'[u] = call[u]
      /\ call'[t].at = After(call[t].at)
  BY <1>1, <1>2, SendsGrow
<1>6. Overlaps'
  <2>1. Active' = Active /\ t \in Active
    BY <1>2, <1>4, <1>5, <1>g DEF Active, Sending
  <2> QED
    BY <1>4, <2>1 DEF IInv, Overlaps, Active
<1>7. CheckCovers'
  <2> SUFFICES ASSUME NEW u \in Threads \ (applied \cup mixed')
               PROVE  /\ call'[u].at = "said" =>
                            CoveredIn(u, wire'[d], err[d], Len(wire'[d]) + 1)
                      /\ call'[u].at = "checking" =>
                            \A c \in Connections : \A k \in 1 .. Len(wire'[c]) :
                               wire'[c][k].from = u /\ wire'[c][k].ask = "check" =>
                                   CoveredIn(u, wire'[c], err[c], k)
    <3>1. Len(replies') = 0
      BY <1>4
    <3> QED
      BY <1>1, <1>4, <3>1 DEF CheckCovers, Covered
  <2>1. u \in Threads \ (applied \cup mixed) /\ call[u].at # "said"
    BY <1>4
  <2>2. ASSUME call'[u].at = "said"
        PROVE  CoveredIn(u, wire'[d], err[d], Len(wire'[d]) + 1)
    <3>1. u = t /\ call[t].at = "begin"
      BY <1>4, <1>5, <1>g, <2>1, <2>2 DEF Sending
    <3>2. wire'[d][Len(wire[d]) + 1].from = u /\ wire'[d][Len(wire[d]) + 1].ask \in Writes
      BY <1>1, <1>3, <1>g, <3>1
    <3>3. Len(wire[d]) \in Nat /\ Len(wire'[d]) = Len(wire[d]) + 1
      BY <1>1, <1>g
    <3> QED
      BY <3>2, <3>3 DEF CoveredIn
  <2>3. ASSUME call'[u].at = "checking", NEW c \in Connections, NEW k \in 1 .. Len(wire'[c]),
               wire'[c][k].from = u, wire'[c][k].ask = "check"
        PROVE  CoveredIn(u, wire'[c], err[c], k)
    <3>1. u # t /\ call[u].at = "checking"
      BY <1>4, <1>5, <1>g, <2>1, <2>3 DEF Sending
    <3>2. k \in 1 .. Len(wire[c]) /\ wire'[c][k] = wire[c][k]
      BY <1>3, <1>g, <2>3, <3>1
    <3>3. CoveredIn(u, wire[c], err[c], k)
      BY <2>1, <2>3, <3>1, <3>2 DEF IInv, CheckCovers, Covered
    <3>4. \A l \in 1 .. k - 1 : wire'[c][l] = wire[c][l]
      BY <1>g, <3>2
    <3>5. k \in Nat
      BY <1>g, <3>2
    <3> QED
      BY <3>3, <3>4, <3>5, CoveredSame
  <2> QED
    BY <2>2, <2>3
<1> QED
  BY <1>1, <1>2, <1>6, <1>7, SendKeeps DEF IInv

\* t received its reply and goes on inside its call.
LEMMA GoesOnStep ==
    ASSUME IInv, NEW t \in Threads, NEW at \in {"fetch", "empty"}, GoesOn(t, at),
           replies # << >>, t \in Waiting,
           at = "fetch" => call[t].ask # "load" /\ t \in applied \cup mixed,
           failed' = failed,
           obj' \in [Items -> [known : BOOLEAN, filled : BOOLEAN]]
    PROVE  IInv'
<1>1. /\ call' = [call EXCEPT ![t].at = at] /\ replies' = Tail(replies)
      /\ UNCHANGED <<calls, unused, conn, up, doc, err, wire, cut, result, applied, mixed,
                     overlap, doubtful>>
  BY DEF GoesOn, server, history
<1>2. call \in [Threads -> Calls] /\ replies \in Seq(Replies)
  BY DEF IInv, TypeOK
<1>3. /\ \A u \in Threads \ {t} : call'[u] = call[u]
      /\ call'[t].at = at /\ call'[t].ask = call[t].ask
      /\ call'[t].item = call[t].item /\ call'[t].val = call[t].val
      /\ call' \in [Threads -> Calls]
  BY <1>1, <1>2 DEF Calls
<1>4. \A k \in 1 .. Len(replies') : \E j \in 1 .. Len(replies) : replies'[k] = replies[j]
  BY <1>1, <1>2, LeftFrom DEF Left
<1>5. TypeOK'
  <2>1. replies' \in Seq(Replies)
    BY <1>1, <1>2
  <2> QED
    BY <1>1, <1>3, <2>1 DEF IInv, TypeOK
<1>6. call[t].at \in {"checking", "fetching", "asking"}
  BY DEF Waiting
<1>7. SenderActive' /\ WriteIsCalls' /\ OneWrite'
  <2>1. SenderActive /\ WriteIsCalls /\ OneWrite
    BY DEF IInv
  <2>2. \A c \in Connections : \A k \in 1 .. Len(wire[c]) : wire[c][k].from \in Threads \cup {Nobody}
    BY MessageType DEF IInv
  <2>3. SenderActive'
    BY <1>1, <1>3, <2>1, <2>2 DEF SenderActive
  <2>4. WriteIsCalls'
    BY <1>1, <1>3, <2>1, <2>2 DEF WriteIsCalls
  <2>5. OneWrite'
    BY <1>1, <2>1 DEF OneWrite
  <2> QED
    BY <2>3, <2>4, <2>5
<1>8. CallShape' /\ NoEarlyCheck'
  BY <1>1, <1>3, <1>4 DEF IInv, CallShape, NoEarlyCheck
<1>9. Overlaps'
  BY <1>1, <1>3, <1>6 DEF IInv, Overlaps, Active
<1>10. CheckCovers'
  <2>1. \A u, c, k : Covered(u, c, k)' <=> Covered(u, c, k)
    BY <1>1 DEF Covered
  <2> QED
    BY <1>1, <1>3, <1>4, <2>1 DEF IInv, CheckCovers
<1>11. CheckedTookEffect' /\ NormalReturnTookEffect'
  BY <1>1, <1>3 DEF IInv, CheckedTookEffect, NormalReturnTookEffect
<1> QED
  BY <1>5, <1>7, <1>8, <1>9, <1>10, <1>11 DEF IInv

\* A write leaves a collection.
LEMMA EffectType ==
    ASSUME NEW m \in Messages, NEW d \in [Items -> Values \cup {None}]
    PROVE  S!Effect(m, d) \in [Items -> Values \cup {None}]
<1>1. m.val \in Values
  BY DEF Messages
<1>2. ASSUME NEW x \in Values \cup {None}
      PROVE  (CASE m.ask = "insert" -> m.val
                [] m.ask = "update" -> IF x = None THEN None ELSE m.val
                [] m.ask = "remove" -> None
                [] OTHER -> x) \in Values \cup {None}
  BY <1>1
<1> QED
  BY <1>2 DEF S!Effect

\* The server takes a message.
LEMMA ProcessStep ==
    ASSUME IInv, NoEarlyFetch, NEW c \in Connections, Process(c)
    PROVE  IInv'
<1> DEFINE m == Head(wire[c])
<1> DEFINE shift(x) == IF x = c THEN 1 ELSE 0
<1>1. /\ wire[c] # << >> /\ wire' = [wire EXCEPT ![c] = Tail(@)]
      /\ UNCHANGED <<calls, obj, unused, conn, up, failed, call, cut, result, mixed, overlap,
                     doubtful>>
  BY DEF Process, item, client
<1>2. /\ wire[c] \in Seq(Messages) /\ wire[c][1] = m /\ m \in Messages
      /\ Len(wire[c]) \in Nat /\ 1 \in 1 .. Len(wire[c])
      /\ m.from \in Threads \cup {Nobody} /\ m.ask \in Writes \cup {"check", "fetch"}
  <2>1. wire[c] \in Seq(Messages) /\ Len(wire[c]) \in Nat
    BY MessageType DEF IInv
  <2>2. wire[c][1] = m /\ 1 \in 1 .. Len(wire[c])
    BY <1>1, <2>1
  <2> QED
    BY <2>1, <2>2, MessageType DEF IInv
<1>3. \A x \in Connections :
        /\ Len(wire[x]) \in Nat
        /\ wire'[x] \in Seq(Messages) /\ Len(wire'[x]) = Len(wire[x]) - shift(x)
        /\ \A k \in 1 .. Len(wire'[x]) :
              k + shift(x) \in 1 .. Len(wire[x]) /\ wire'[x][k] = wire[x][k + shift(x)]
  <2> SUFFICES ASSUME NEW x \in Connections
               PROVE  /\ Len(wire[x]) \in Nat
                      /\ wire'[x] \in Seq(Messages) /\ Len(wire'[x]) = Len(wire[x]) - shift(x)
                      /\ \A k \in 1 .. Len(wire'[x]) :
                            k + shift(x) \in 1 .. Len(wire[x]) /\ wire'[x][k] = wire[x][k + shift(x)]
    OBVIOUS
  <2>1. wire[x] \in Seq(Messages) /\ Len(wire[x]) \in Nat
    BY MessageType DEF IInv
  <2>2. CASE x = c
    <3>1. wire'[x] = Tail(wire[x]) /\ wire[x] # << >>
      BY <1>1, <2>2 DEF IInv, TypeOK
    <3> QED
      BY <2>1, <2>2, <3>1
  <2>3. CASE x # c
    <3>1. wire'[x] = wire[x]
      BY <1>1, <2>3 DEF IInv, TypeOK
    <3> QED
      BY <2>1, <2>3, <3>1
  <2> QED
    BY <2>2, <2>3
<1>s. \A x \in Connections :
        /\ Len(wire[x]) \in Nat /\ Len(wire'[x]) \in Nat /\ shift(x) \in {0, 1}
        /\ x = c <=> shift(x) = 1
  <2>1. \A x \in Connections : Len(wire'[x]) \in Nat
    BY <1>3
  <2> QED
    BY <1>3, <2>1
<1> HIDE DEF shift
<1>4. /\ m.ask \in Writes => applied' = applied \/ applied' = applied \cup ({m.from} \cap Threads)
      /\ m.ask \notin Writes => applied' = applied
      /\ err' \in [Connections -> BOOLEAN]
      /\ \A x \in Connections \ {c} : err'[x] = err[x]
      /\ m.ask = "check" => err' = err
      /\ m.ask \in Writes /\ m.from \in Threads \ applied' => err'[c]
      /\ doc' \in [Items -> Values \cup {None}]
      /\ \/ replies' = replies
         \/ /\ m.ask = "check"
            /\ replies' = Append(replies, [to |-> m.from, err |-> err[c], val |-> None])
         \/ /\ m.ask = "fetch"
            /\ replies' = Append(replies, [to |-> m.from, err |-> FALSE, val |-> doc[m.item]])
  <2>1. err \in [Connections -> BOOLEAN] /\ doc \in [Items -> Values \cup {None}]
    BY DEF IInv, TypeOK
  <2>2. CASE /\ m.ask \in Writes
             /\ doc' = S!Effect(m, doc)
             /\ err' = [err EXCEPT ![c] = FALSE]
             /\ applied' = applied \cup ({m.from} \cap Threads)
             /\ UNCHANGED replies
    <3>1. doc' \in [Items -> Values \cup {None}]
      BY <1>2, <2>1, <2>2, EffectType
    <3> QED
      BY <2>1, <2>2, <3>1 DEF Writes
  <2>3. CASE /\ m.ask \in Writes
             /\ err' = [err EXCEPT ![c] = TRUE]
             /\ UNCHANGED <<doc, applied, replies>>
    BY <2>1, <2>3 DEF Writes
  <2>4. CASE /\ m.ask = "check"
             /\ replies' = IF c = conn /\ up
                           THEN Append(replies, [to |-> m.from, err |-> err[c], val |-> None])
                           ELSE replies
             /\ UNCHANGED <<doc, err, applied>>
    BY <2>1, <2>4 DEF Writes
  <2>5. CASE /\ m.ask = "fetch"
             /\ replies' = IF c = conn /\ up
                           THEN Append(replies, [to |-> m.from, err |-> FALSE, val |-> doc[m.item]])
                           ELSE replies
             /\ err' = [err EXCEPT ![c] = FALSE]
             /\ UNCHANGED <<doc, applied>>
    BY <2>1, <2>5 DEF Writes
  <2> QED
    BY <2>2, <2>3, <2>4, <2>5 DEF Process
<1> HIDE DEF m
<1>5. \A k \in 1 .. Len(replies') :
        \/ k \in 1 .. Len(replies) /\ replies'[k] = replies[k]
        \/ /\ m.ask \in {"check", "fetch"} /\ replies'[k].to = m.from
           /\ m.ask = "check" => replies'[k].err = err[c]
  <2>1. replies \in Seq(Replies)
    BY DEF IInv, TypeOK
  <2> QED
    BY <1>4, <2>1
<1>6. TypeOK'
  <2>1. replies \in Seq(Replies) /\ applied \in SUBSET Threads /\ err[c] \in BOOLEAN
        /\ doc[m.item] \in Values \cup {None}
    BY <1>2 DEF IInv, TypeOK, Messages
  <2>2. /\ [to |-> m.from, err |-> err[c], val |-> None] \in Replies
        /\ [to |-> m.from, err |-> FALSE, val |-> doc[m.item]] \in Replies
    BY <1>2, <2>1 DEF Replies
  <2>3. replies' \in Seq(Replies)
    BY <1>4, <2>1, <2>2
  <2>4. wire' \in [Connections -> Seq(Messages)]
    BY <1>1, <1>3 DEF IInv, TypeOK
  <2>5. applied' \in SUBSET Threads
    BY <1>2, <1>4, <2>1
  <2> QED
    BY <1>1, <1>4, <2>3, <2>4, <2>5 DEF IInv, TypeOK
<1>7. SenderActive'
  BY <1>1, <1>3 DEF IInv, SenderActive
<1>8. WriteIsCalls' /\ OneWrite'
  <2>1. WriteIsCalls /\ OneWrite
    BY DEF IInv
  <2>2. OneWrite'
    <3> SUFFICES ASSUME NEW x \in Connections, NEW y \in Connections,
                        NEW k \in 1 .. Len(wire'[x]), NEW l \in 1 .. Len(wire'[y]),
                        wire'[x][k].from # Nobody, wire'[x][k].from = wire'[y][l].from,
                        wire'[x][k].ask \in Writes, wire'[y][l].ask \in Writes
                 PROVE  x = y /\ k = l
      BY DEF OneWrite
    <3>0. /\ k + shift(x) \in 1 .. Len(wire[x]) /\ wire'[x][k] = wire[x][k + shift(x)]
          /\ l + shift(y) \in 1 .. Len(wire[y]) /\ wire'[y][l] = wire[y][l + shift(y)]
      BY <1>3
    <3>1. x = y /\ k + shift(x) = l + shift(y)
      BY <2>1, <3>0 DEF OneWrite
    <3> QED
      BY <1>s, <3>1
  <2>3. WriteIsCalls'
    <3> SUFFICES ASSUME NEW x \in Connections, NEW k \in 1 .. Len(wire'[x]),
                        wire'[x][k].from # Nobody, wire'[x][k].ask \in Writes
                 PROVE  /\ wire'[x][k].from \notin applied'
                        /\ wire'[x][k].ask = call[wire'[x][k].from].ask
                        /\ wire'[x][k].item = call[wire'[x][k].from].item
                        /\ wire'[x][k].val = call[wire'[x][k].from].val
      <4>1. call' = call
        BY <1>1
      <4> QED
        BY <4>1, Zenon DEF WriteIsCalls
    <3>1. k + shift(x) \in 1 .. Len(wire[x]) /\ wire'[x][k] = wire[x][k + shift(x)]
          /\ (x = c => k + shift(x) # 1)
      BY <1>3, <1>s
    <3>2. m.ask \in Writes => wire'[x][k].from # m.from
      BY <1>2, <2>1, <3>1 DEF OneWrite
    <3> QED
      BY <1>4, <2>1, <3>1, <3>2 DEF WriteIsCalls
  <2> QED
    BY <2>2, <2>3
<1>9. CallShape' /\ NoEarlyCheck'
  <2>1. CallShape'
    <3>1. m.from \in Threads => call[m.from].at # "begin"
      BY <1>2, DocumentsAssumption DEF IInv, SenderActive
    <3> QED
      BY <1>1, <1>4, <3>1 DEF IInv, CallShape
  <2>2. NoEarlyCheck
    BY DEF IInv
  <2>3. ASSUME NEW u \in Threads, call[u].at \in {"idle", "begin", "said"},
               NEW k \in 1 .. Len(replies'), replies'[k].to = u
        PROVE  FALSE
    <3>1. m.ask \in {"check", "fetch"} /\ m.from = u
      BY <1>5, <2>2, <2>3 DEF NoEarlyCheck
    <3> QED
      BY <1>2, <2>2, <2>3, <3>1 DEF NoEarlyCheck, Writes
  <2>4. ASSUME NEW u \in Threads, call[u].at \in {"idle", "begin", "said"},
               NEW x \in Connections, NEW k \in 1 .. Len(wire'[x]), wire'[x][k].from = u
        PROVE  wire'[x][k].ask \in Writes
    BY <1>3, <2>2, <2>4 DEF NoEarlyCheck
  <2> QED
    BY <1>1, <2>1, <2>3, <2>4 DEF NoEarlyCheck
<1>10. Overlaps'
  BY <1>1 DEF IInv, Overlaps, Active
<1>11. CheckCovers'
  <2> SUFFICES ASSUME NEW u \in Threads \ (applied' \cup mixed)
               PROVE  /\ call[u].at = "said" /\ up =>
                            CoveredIn(u, wire'[conn], err'[conn], Len(wire'[conn]) + 1)
                      /\ call[u].at = "checking" =>
                            /\ \A x \in Connections : \A k \in 1 .. Len(wire'[x]) :
                                  wire'[x][k].from = u /\ wire'[x][k].ask = "check" =>
                                      CoveredIn(u, wire'[x], err'[x], k)
                            /\ \A k \in 1 .. Len(replies') : replies'[k].to = u => replies'[k].err
    BY <1>1 DEF CheckCovers, Covered
  <2>1. u \in Threads \ (applied \cup mixed)
    BY <1>4
  <2>2. ASSUME NEW x \in Connections, NEW k \in 1 .. Len(wire'[x]) + 1,
               CoveredIn(u, wire[x], err[x], k + shift(x))
        PROVE  CoveredIn(u, wire'[x], err'[x], k)
    <3>1. CASE x # c
      <4>1. wire'[x] = wire[x] /\ err'[x] = err[x] /\ k + shift(x) = k
        BY <1>1, <1>3, <1>s, <1>4, <3>1 DEF IInv, TypeOK
      <4> QED
        BY <2>2, <4>1
    <3>2. CASE x = c
      <4>1. wire'[c] = Tail(wire[c])
        BY <1>1 DEF IInv, TypeOK
      <4>2. k + 1 \in 2 .. Len(wire[c]) + 1 /\ (k + 1) - 1 = k /\ k + shift(x) = k + 1
        BY <1>2, <1>3, <1>s, <3>2
      <4>3. /\ wire[c][1].ask = "check" => err'[c] = err[c]
            /\ wire[c][1].from = u /\ wire[c][1].ask \in Writes => err'[c]
        BY <1>2, <1>4
      <4>4. CoveredIn(u, wire[c], err[c], k + 1)
        BY <2>2, <3>2, <4>2
      <4>5. CoveredIn(u, Tail(wire[c]), err'[c], (k + 1) - 1)
        <5> DEFINE n == k + 1
        <5>1. n \in 2 .. Len(wire[c]) + 1 /\ CoveredIn(u, wire[c], err[c], n)
          BY <4>2, <4>4
        <5> HIDE DEF n
        <5>2. CoveredIn(u, Tail(wire[c]), err'[c], n - 1)
          BY <1>1, <1>2, <4>3, <5>1, CoveredTail
        <5> QED
          BY <5>2 DEF n
      <4> QED
        BY <3>2, <4>1, <4>2, <4>5
    <3> QED
      BY <3>1, <3>2
  <2>3. ASSUME call[u].at = "said", up
        PROVE  CoveredIn(u, wire'[conn], err'[conn], Len(wire'[conn]) + 1)
    <3>1. conn \in Connections
      BY DEF IInv, TypeOK
    <3>2. CoveredIn(u, wire[conn], err[conn], Len(wire[conn]) + 1)
      BY <2>1, <2>3 DEF IInv, CheckCovers, Covered
    <3>3. Len(wire[conn]) + 1 = (Len(wire'[conn]) + 1) + shift(conn)
          /\ Len(wire'[conn]) + 1 \in 1 .. Len(wire'[conn]) + 1
      BY <1>3, <1>s, <3>1
    <3> QED
      BY <2>2, <3>1, <3>2, <3>3
  <2>4. ASSUME call[u].at = "checking", NEW x \in Connections, NEW k \in 1 .. Len(wire'[x]),
               wire'[x][k].from = u, wire'[x][k].ask = "check"
        PROVE  CoveredIn(u, wire'[x], err'[x], k)
    <3>1. k + shift(x) \in 1 .. Len(wire[x]) /\ wire'[x][k] = wire[x][k + shift(x)]
          /\ k \in 1 .. Len(wire'[x]) + 1
      BY <1>3, <1>s
    <3>2. CoveredIn(u, wire[x], err[x], k + shift(x))
      BY <2>1, <2>4, <3>1 DEF IInv, CheckCovers, Covered
    <3> QED
      BY <2>2, <3>1, <3>2
  <2>5. ASSUME call[u].at = "checking", NEW k \in 1 .. Len(replies'), replies'[k].to = u
        PROVE  replies'[k].err
    <3>1. CASE k \in 1 .. Len(replies) /\ replies'[k] = replies[k]
      BY <2>1, <2>5, <3>1 DEF IInv, CheckCovers
    <3>2. CASE m.ask = "check" /\ m.from = u /\ replies'[k].err = err[c]
      <4>1. CoveredIn(u, wire[c], err[c], 1)
        BY <1>2, <2>1, <2>5, <3>2 DEF IInv, CheckCovers, Covered
      <4> QED
        BY <3>2, <4>1 DEF CoveredIn
    <3>3. CASE m.ask = "fetch" /\ m.from = u
      BY <1>2, <2>5, <3>3 DEF NoEarlyFetch
    <3> QED
      BY <1>5, <2>5, <3>1, <3>2, <3>3
  <2> QED
    BY <2>3, <2>4, <2>5
<1>12. CheckedTookEffect' /\ NormalReturnTookEffect'
  BY <1>1, <1>4 DEF IInv, CheckedTookEffect, NormalReturnTookEffect
<1> QED
  BY <1>6, <1>7, <1>8, <1>9, <1>10, <1>11, <1>12 DEF IInv

\* The messages of a dead connection are lost.
LEMMA LostStep ==
    ASSUME IInv, NEW c \in Connections, Lost(c)
    PROVE  IInv'
<1>1. /\ c # conn \/ ~ up
      /\ wire' = [wire EXCEPT ![c] = << >>]
      /\ UNCHANGED <<calls, obj, unused, conn, up, failed, doc, err, call, replies, cut,
                     result, applied, mixed, overlap, doubtful>>
  BY DEF Lost, item, client, server, history
<1>2. wire \in [Connections -> Seq(Messages)]
  BY DEF IInv, TypeOK
<1>3. \A x \in Connections : \/ wire'[x] = wire[x]
                             \/ Len(wire'[x]) = 0 /\ (x # conn \/ ~ up)
  BY <1>1, <1>2
<1>4. TypeOK'
  <2>1. wire' \in [Connections -> Seq(Messages)]
    BY <1>1, <1>2
  <2> QED
    BY <1>1, <2>1 DEF IInv, TypeOK
<1>5. SenderActive' /\ WriteIsCalls'
  BY <1>1, <1>3 DEF IInv, SenderActive, WriteIsCalls
<1>6. OneWrite'
  <2>1. OneWrite
    BY DEF IInv
  <2> QED
    BY <1>1, <1>3, <2>1 DEF OneWrite
<1>7. NoEarlyCheck' /\ CallShape' /\ Overlaps'
  BY <1>1, <1>3 DEF IInv, NoEarlyCheck, CallShape, Overlaps, Active
<1>8. CheckCovers'
  <2>1. CheckCovers /\ conn \in Connections
    BY DEF IInv, TypeOK
  <2>2. up => wire'[conn] = wire[conn]
    BY <1>3, <2>1, <1>1, <1>2
  <2> QED
    BY <1>1, <1>3, <2>1, <2>2 DEF CheckCovers, Covered
<1>9. CheckedTookEffect' /\ NormalReturnTookEffect'
  BY <1>1 DEF IInv, CheckedTookEffect, NormalReturnTookEffect
<1> QED
  BY <1>4, <1>5, <1>6, <1>7, <1>8, <1>9 DEF IInv

\* The connection breaks.
LEMMA BreakStep == ASSUME IInv, Break PROVE IInv'
<1>1. /\ up' = FALSE
      /\ UNCHANGED <<calls, obj, unused, conn, failed, doc, err, call, wire, replies, cut,
                     result, applied, mixed, overlap, doubtful>>
  BY DEF Break, item, server, history
<1>2. TypeOK' /\ SenderActive' /\ WriteIsCalls' /\ OneWrite' /\ NoEarlyCheck' /\ CallShape'
      /\ Overlaps' /\ CheckedTookEffect' /\ NormalReturnTookEffect'
  <2>1. TypeOK'
    BY <1>1 DEF IInv, TypeOK
  <2>2. SenderActive' /\ WriteIsCalls' /\ OneWrite'
    BY <1>1 DEF IInv, SenderActive, WriteIsCalls, OneWrite
  <2>3. NoEarlyCheck' /\ CallShape' /\ Overlaps' /\ CheckedTookEffect' /\ NormalReturnTookEffect'
    BY <1>1 DEF IInv, NoEarlyCheck, CallShape, Overlaps, Active, CheckedTookEffect,
                NormalReturnTookEffect
  <2> QED
    BY <2>1, <2>2, <2>3
<1>3. CheckCovers'
  BY <1>1 DEF IInv, CheckCovers, Covered
<1> QED
  BY <1>2, <1>3 DEF IInv

\* Nothing happens.
LEMMA StutterStep == ASSUME IInv, UNCHANGED vars PROVE IInv'
<1>1. UNCHANGED <<calls, obj, unused, conn, up, failed, doc, err, call, wire, replies, cut,
                  result, applied, mixed, overlap, doubtful>>
  BY DEF vars, item, client, server, history
<1>2. TypeOK' /\ SenderActive' /\ WriteIsCalls' /\ OneWrite' /\ NoEarlyCheck' /\ CallShape'
      /\ Overlaps' /\ CheckedTookEffect' /\ NormalReturnTookEffect'
  BY <1>1 DEF IInv, TypeOK, SenderActive, WriteIsCalls, OneWrite, NoEarlyCheck, CallShape,
              Overlaps, Active, CheckedTookEffect, NormalReturnTookEffect
<1>3. CheckCovers'
  BY <1>1 DEF IInv, CheckCovers, Covered
<1> QED
  BY <1>2, <1>3 DEF IInv

\* The four calls are Begin with a proper first message.
LEMMA CallBegins ==
    ASSUME TypeOK, NEW t \in Threads, NEW i \in Items,
           \/ \E v \in Values : Create(t, i, v) \/ Update(t, i, v)
           \/ Destroy(t, i) \/ Load(t, i)
    PROVE  /\ \E at \in {"begin", "fetch"}, ask \in Writes \cup {"load"}, v \in Values :
                 (at = "begin" <=> ask \in Writes) /\ Begin(t, at, ask, i, v)
           /\ obj' \in [Items -> [known : BOOLEAN, filled : BOOLEAN]]
           /\ unused' \in SUBSET Items
<1>0. call[t].val \in Values /\ obj \in [Items -> [known : BOOLEAN, filled : BOOLEAN]]
      /\ unused \in SUBSET Items
  BY DEF TypeOK, Calls
<1>1. CASE \E v \in Values : Create(t, i, v)
  <2>1. PICK v \in Values : Create(t, i, v)
    BY <1>1
  <2>2. Begin(t, "begin", "insert", i, v) /\ obj' = obj /\ unused' = unused \ {i}
    BY <2>1 DEF Create
  <2> QED
    BY <1>0, <2>2 DEF Writes
<1>2. CASE \E v \in Values : Update(t, i, v)
  <2>1. PICK v \in Values : Update(t, i, v)
    BY <1>2
  <2>2. Begin(t, "begin", "update", i, v) /\ obj' = obj /\ unused' = unused
    BY <2>1 DEF Update, item
  <2> QED
    BY <1>0, <2>2 DEF Writes
<1>3. CASE Destroy(t, i)
  <2>1. Begin(t, "begin", "remove", i, call[t].val) /\ obj' = obj /\ unused' = unused
    BY <1>3 DEF Destroy, item
  <2> QED
    BY <1>0, <2>1 DEF Writes
<1>4. CASE Load(t, i)
  <2>1. Begin(t, "fetch", "load", i, call[t].val) /\ unused' = unused
        /\ obj' = [obj EXCEPT ![i] = [known |-> FALSE, filled |-> FALSE]]
    BY <1>4 DEF Load
  <2> QED
    BY <1>0, <2>1 DEF Writes
<1> QED
  BY <1>1, <1>2, <1>3, <1>4

\* Every way a call ends is Ends, with the reply taken or none, and a call that
\* returned was covered by its error check; the only other receipt is GoesOn.
EndsWell(t) ==
    \E how \in {"returned", "thrown"} : \E rs \in {replies, Tail(replies)} :
        /\ Left(rs) /\ Ends(t, how, rs)
        /\ how = "returned" => call[t].ask = "load" \/ t \in applied \cup mixed

\* What a receipt is.
LEMMA ReceiveCases ==
    ASSUME IInv, NEW t \in Threads, Receive(t)
    PROVE  /\ obj' \in [Items -> [known : BOOLEAN, filled : BOOLEAN]]
           /\ failed' = failed /\ replies # << >> /\ t \in Waiting
           /\ \/ EndsWell(t)
              \/ \E at \in {"fetch", "empty"} :
                    /\ GoesOn(t, at)
                    /\ at = "fetch" => call[t].ask # "load" /\ t \in applied \cup mixed
<1> DEFINE r == Head(replies)
<1> DEFINE i == call[t].item
<1>1. t \in Waiting \ cut /\ replies # << >> /\ r.to = t /\ failed' = failed
  BY DEF Receive
<1>2. /\ replies \in Seq(Replies) /\ 1 \in 1 .. Len(replies) /\ r = replies[1] /\ r \in Replies
      /\ r.err \in BOOLEAN
  <2>1. replies \in Seq(Replies)
    BY DEF IInv, TypeOK
  <2>2. 1 \in 1 .. Len(replies) /\ r = replies[1] /\ r \in Replies
    BY <1>1, <2>1
  <2> QED
    BY <2>1, <2>2 DEF Replies
<1>3. i \in Items /\ obj \in [Items -> [known : BOOLEAN, filled : BOOLEAN]]
      /\ call[t].ask \in Writes \cup {"load"}
  BY DEF IInv, TypeOK, Calls
<1>4. Left(Tail(replies))
  BY <1>1 DEF Left
<1>5. CASE /\ call[t].at = "checking" /\ r.err
           /\ Ends(t, "thrown", Tail(replies)) /\ obj' = obj
  BY <1>1, <1>3, <1>4, <1>5 DEF EndsWell
<1>6. CASE /\ call[t].at = "checking" /\ ~ r.err
           /\ obj' = [obj EXCEPT ![i] = Checked(call[t].ask, @)]
           /\ (GoesOn(t, "fetch") /\ call[t].ask # "remove") \/ Ends(t, "returned", Tail(replies))
  <2>1. t \in applied \cup mixed
    BY <1>1, <1>2, <1>6 DEF IInv, CheckCovers
  <2>2. call[t].ask # "load"
    BY <1>6 DEF IInv, CallShape, Writes
  <2>3. Checked(call[t].ask, obj[i]) \in [known : BOOLEAN, filled : BOOLEAN]
    BY <1>3 DEF Checked
  <2>4. obj' \in [Items -> [known : BOOLEAN, filled : BOOLEAN]]
    BY <1>3, <1>6, <2>3
  <2> QED
    BY <1>1, <1>4, <1>6, <2>1, <2>2, <2>4 DEF EndsWell
<1>7. CASE /\ call[t].at = "fetching"
           /\ obj' = [obj EXCEPT ![i].filled = r.val # None,
                                 ![i].known = IF call[t].ask = "load" THEN r.val # None ELSE @]
           /\ IF r.val = None /\ call[t].ask # "load"
              THEN GoesOn(t, "empty")
              ELSE Ends(t, "returned", Tail(replies))
  <2>1. call[t].ask # "load" => t \in applied \cup mixed
    BY <1>7 DEF IInv, CheckedTookEffect
  <2>2. obj' \in [Items -> [known : BOOLEAN, filled : BOOLEAN]]
    <3> DEFINE f == (r.val # None)
    <3> DEFINE o == [obj EXCEPT ![i].filled = f]
    <3> DEFINE g == (IF call[t].ask = "load" THEN f ELSE o[i].known)
    <3>1. f \in BOOLEAN
      OBVIOUS
    <3>2. obj' = [o EXCEPT ![i].known = g]
      BY <1>7
    <3> HIDE DEF f
    <3>3. o \in [Items -> [known : BOOLEAN, filled : BOOLEAN]]
      BY <1>3, <3>1
    <3> HIDE DEF o
    <3>4. g \in BOOLEAN
      BY <1>3, <3>1, <3>3
    <3> HIDE DEF g
    <3> QED
      BY <1>3, <3>2, <3>3, <3>4
  <2> QED
    BY <1>1, <1>4, <1>7, <2>1, <2>2 DEF EndsWell
<1>8. CASE /\ call[t].at = "asking" /\ Ends(t, "thrown", Tail(replies)) /\ obj' = obj
  BY <1>1, <1>3, <1>4, <1>8 DEF EndsWell
<1> QED
  BY <1>5, <1>6, <1>7, <1>8 DEF Receive

\* What a throw is.
LEMMA ThrowCases ==
    ASSUME IInv, NEW t \in Threads, SayThrows(t) \/ ReceiveOther(t) \/ ReceiveFails(t)
    PROVE  EndsWell(t) /\ failed' \in BOOLEAN /\ obj' = obj /\ t \in Active
<1>1. CASE SayThrows(t)
  BY <1>1 DEF SayThrows, EndsWell, Left, Active, Sending
<1>2. CASE ReceiveOther(t)
  BY <1>2 DEF ReceiveOther, EndsWell, Left, Active, Waiting, IInv, TypeOK
<1>3. CASE ReceiveFails(t)
  BY <1>3 DEF ReceiveFails, EndsWell, Left, Active, Waiting
<1> QED
  BY <1>1, <1>2, <1>3

\* Say and Reconnect are sends.
LEMMA SayIsSend ==
    ASSUME IInv, NEW t \in Threads, Say(t)
    PROVE  \E d \in Connections \cup {0} : SendsOn(t, d)
<1> DEFINE d == IF up THEN conn ELSE 0
<1>1. d \in Connections \cup {0} /\ conn \in Connections /\ 0 \notin Connections
  BY DEF IInv, TypeOK, Connections
<1>2. SendsOn(t, d)
  <2>1. wire' = [c \in Connections |-> IF c = d THEN Append(wire[c], Sent(t)) ELSE wire[c]]
    <3>1. wire \in [Connections -> Seq(Messages)]
      BY DEF IInv, TypeOK
    <3> QED
      BY <1>1, <3>1 DEF Say
  <2> QED
    BY <2>1 DEF Say, SendsOn, IInv, TypeOK, client
<1> QED
  BY <1>1, <1>2

\* A reconnection is a send, on the new connection.
LEMMA ReconnectIsSend ==
    ASSUME IInv, NEW t \in Threads, Reconnect(t)
    PROVE  \E d \in Connections \cup {0} : SendsOn(t, d)
<1> DEFINE d == conn + 1
<1>1. d \in Connections /\ conn \in Connections /\ 0 \notin Connections /\ conn' = d
  BY DocumentsAssumption DEF IInv, TypeOK, Connections, Reconnect
<1>2. SendsOn(t, d)
  <2>1. wire' = [c \in Connections |-> IF c = d THEN Append(wire[c], Sent(t)) ELSE wire[c]]
    <3>1. wire \in [Connections -> Seq(Messages)]
      BY DEF IInv, TypeOK
    <3> QED
      BY <1>1, <3>1 DEF Reconnect
  <2>2. mixed \subseteq mixed' /\ mixed' \subseteq Threads /\ cut' \in SUBSET Threads
    BY DEF Reconnect, IInv, TypeOK, Waiting
  <2> QED
    BY <1>1, <2>1, <2>2 DEF Reconnect, SendsOn
<1> QED
  BY <1>1, <1>2

\* Server and network only take messages away.
LEMMA WiresShrink ==
    ASSUME IInv, NEW c \in Connections, Process(c) \/ Lost(c)
    PROVE  \A x \in Connections : \A k \in 1 .. Len(wire'[x]) :
              \E l \in 1 .. Len(wire[x]) : wire'[x][k] = wire[x][l]
<1> SUFFICES ASSUME NEW x \in Connections, NEW k \in 1 .. Len(wire'[x])
             PROVE  \E l \in 1 .. Len(wire[x]) : wire'[x][k] = wire[x][l]
  OBVIOUS
<1>1. wire \in [Connections -> Seq(Messages)] /\ wire[x] \in Seq(Messages) /\ Len(wire[x]) \in Nat
  BY DEF IInv, TypeOK
<1>2. wire'[x] = wire[x] \/ wire'[x] = << >> \/ (wire[x] # << >> /\ wire'[x] = Tail(wire[x]))
  BY <1>1 DEF Process, Lost
<1>3. CASE wire[x] # << >> /\ wire'[x] = Tail(wire[x])
  <2>1. k + 1 \in 1 .. Len(wire[x]) /\ wire'[x][k] = wire[x][k + 1]
    BY <1>1, <1>3
  <2> QED
    BY <2>1
<1> QED
  BY <1>1, <1>2, <1>3

\* No step puts a query before the error check.
LEMMA EarlyFetchStep ==
    ASSUME IInv, NoEarlyFetch, [Next]_vars
    PROVE  NoEarlyFetch'
<1>0. call \in [Threads -> Calls] /\ wire \in [Connections -> Seq(Messages)] /\ conn \in Connections
  BY DEF IInv, TypeOK
<1>1. ASSUME NEW t \in Threads, NEW i \in Items,
             \/ \E v \in Values : Create(t, i, v) \/ Update(t, i, v)
             \/ Destroy(t, i) \/ Load(t, i)
      PROVE  NoEarlyFetch'
  <2>1. PICK at \in {"begin", "fetch"}, ask \in Writes \cup {"load"}, v \in Values :
             Begin(t, at, ask, i, v)
    BY <1>1, CallBegins DEF IInv
  <2>2. wire' = wire /\ \A u \in Threads : call'[u] = call[u] \/ call'[u].at = at
    BY <1>0, <2>1 DEF Begin
  <2> QED
    BY <2>2 DEF NoEarlyFetch
<1>2. ASSUME NEW t \in Threads, NEW d \in Connections \cup {0}, SendsOn(t, d)
      PROVE  NoEarlyFetch'
  <2>1. /\ call[t].at \in {"said", "empty"} => Sent(t).ask = "check"
        /\ Sent(t).from = t
    BY <1>2, SentType DEF IInv, CallShape, SendsOn
  <2>2. After(call[t].at) = "checking" => call[t].at = "said"
    BY <1>2 DEF After, SendsOn, Sending
  <2> SUFFICES ASSUME NEW u \in Threads, call'[u].at = "checking",
                      NEW c \in Connections, NEW k \in 1 .. Len(wire'[c]), wire'[c][k].from = u
               PROVE  wire'[c][k].ask # "fetch"
    BY DEF NoEarlyFetch
  <2>3. \/ k \in 1 .. Len(wire[c]) /\ wire'[c][k] = wire[c][k]
        \/ wire'[c][k] = Sent(t)
    BY <1>2, SendsGrow
  <2>4. CASE u = t
    <3>1. call[t].at = "said"
      BY <1>2, <2>2, <2>4, SendsGrow
    <3>2. \A l \in 1 .. Len(wire[c]) : wire[c][l].from = t => wire[c][l].ask \in Writes
      BY <3>1 DEF IInv, NoEarlyCheck
    <3> QED
      BY <2>1, <2>3, <2>4, <3>1, <3>2 DEF Writes
  <2>5. CASE u # t
    <3>1. call[u].at = "checking"
      BY <1>2, <2>5, SendsGrow
    <3> QED
      BY <2>1, <2>3, <2>5, <3>1 DEF NoEarlyFetch
  <2> QED
    BY <2>4, <2>5
<1>3. ASSUME NEW t \in Threads, Say(t) PROVE NoEarlyFetch'
  BY <1>2, <1>3, SayIsSend
<1>4. ASSUME NEW t \in Threads, Reconnect(t) PROVE NoEarlyFetch'
  BY <1>2, <1>4, ReconnectIsSend
<1>5. ASSUME NEW t \in Threads, EndsWell(t) PROVE NoEarlyFetch'
  <2>1. /\ wire' = [c \in Connections |-> Disowned(t, wire[c])]
        /\ call' = [call EXCEPT ![t].at = "idle"]
    BY <1>5 DEF EndsWell, Ends
  <2>2. \A u \in Threads : (u = t /\ call'[u].at = "idle") \/ (u # t /\ call'[u] = call[u])
    BY <1>0, <2>1 DEF Calls
  <2>3. \A c \in Connections : \A k \in 1 .. Len(wire'[c]) :
          /\ k \in 1 .. Len(wire[c]) /\ wire'[c][k].ask = wire[c][k].ask
          /\ wire'[c][k].from = wire[c][k].from \/ wire'[c][k].from = Nobody
    BY <1>0, <2>1, DisownedType
  <2> QED
    BY <2>2, <2>3, DocumentsAssumption DEF NoEarlyFetch
<1>6. ASSUME NEW t \in Threads, NEW at \in {"fetch", "empty"}, GoesOn(t, at) PROVE NoEarlyFetch'
  <2>1. wire' = wire /\ \A u \in Threads : call'[u].at \in {call[u].at, at}
    BY <1>0, <1>6 DEF GoesOn, Calls
  <2> QED
    BY <2>1 DEF NoEarlyFetch
<1>7. ASSUME NEW t \in Threads,
             Receive(t) \/ SayThrows(t) \/ ReceiveOther(t) \/ ReceiveFails(t)
      PROVE  NoEarlyFetch'
  BY <1>5, <1>6, <1>7, ReceiveCases, ThrowCases
<1>8. ASSUME NEW c \in Connections, Process(c) \/ Lost(c) PROVE NoEarlyFetch'
  <2>1. call' = call
    BY <1>8 DEF Process, Lost
  <2>2. \A x \in Connections : \A k \in 1 .. Len(wire'[x]) :
          \E l \in 1 .. Len(wire[x]) : wire'[x][k] = wire[x][l]
    BY <1>8, WiresShrink
  <2> QED
    BY <2>1, <2>2 DEF NoEarlyFetch
<1>9. CASE Break \/ UNCHANGED vars
  BY <1>9 DEF Break, vars, NoEarlyFetch
<1> QED
  BY <1>1, <1>3, <1>4, <1>7, <1>8, <1>9 DEF Next

\* What every reachable state satisfies.
Inv == IInv /\ NoEarlyFetch

\* The invariant is inductive.
LEMMA InvStep == Inv /\ [Next]_vars => Inv'
<1> SUFFICES ASSUME Inv, [Next]_vars PROVE Inv'
  OBVIOUS
<1>0. IInv /\ NoEarlyFetch
  BY DEF Inv
<1>1. ASSUME NEW t \in Threads, NEW i \in Items,
             \/ \E v \in Values : Create(t, i, v) \/ Update(t, i, v)
             \/ Destroy(t, i) \/ Load(t, i)
      PROVE  IInv'
  <2>1. PICK at \in {"begin", "fetch"}, ask \in Writes \cup {"load"}, v \in Values :
             (at = "begin" <=> ask \in Writes) /\ Begin(t, at, ask, i, v)
    BY <1>0, <1>1, CallBegins DEF IInv
  <2>2. obj' \in [Items -> [known : BOOLEAN, filled : BOOLEAN]] /\ unused' \in SUBSET Items
    BY <1>0, <1>1, CallBegins DEF IInv
  <2> QED
    BY <1>0, <2>1, <2>2, BeginStep
<1>2. ASSUME NEW t \in Threads, Say(t) \/ Reconnect(t) PROVE IInv'
  BY <1>0, <1>2, SayStep, ReconnectStep
<1>3. ASSUME NEW t \in Active, EndsWell(t), failed' \in BOOLEAN,
             obj' \in [Items -> [known : BOOLEAN, filled : BOOLEAN]]
      PROVE  IInv'
  BY <1>0, <1>3, EndStep DEF EndsWell
<1>4. ASSUME NEW t \in Threads, SayThrows(t) \/ ReceiveOther(t) \/ ReceiveFails(t)
      PROVE  IInv'
  BY <1>0, <1>3, <1>4, ThrowCases DEF IInv, TypeOK
<1>5. ASSUME NEW t \in Threads, Receive(t) PROVE IInv'
  <2>1. failed' \in BOOLEAN /\ t \in Active
    BY <1>0, <1>5, ReceiveCases DEF IInv, TypeOK, Waiting, Active
  <2> QED
    BY <1>0, <1>3, <1>5, <2>1, ReceiveCases, GoesOnStep
<1>6. ASSUME NEW c \in Connections, Process(c) \/ Lost(c) PROVE IInv'
  BY <1>0, <1>6, ProcessStep, LostStep
<1>7. IInv'
  BY <1>0, <1>1, <1>2, <1>4, <1>5, <1>6, BreakStep, StutterStep DEF Next
<1> QED
  BY <1>0, <1>7, EarlyFetchStep DEF Inv

\* The invariant holds in every reachable state.
LEMMA Invariance == Spec => []Inv
<1>1. Init => Inv
  <2>1. Init => NoEarlyFetch
    BY DEF Init, NoEarlyFetch
  <2> QED
    BY <2>1, InitIInv DEF Inv
<1> QED
  BY <1>1, InvStep, PTL DEF Spec

\* Every state of SaveableItem, connection and server has its type.
THEOREM TypeCorrect == Spec => []TypeOK
<1>1. Inv => TypeOK
  BY DEF Inv, IInv
<1> QED
  BY <1>1, Invariance, PTL

\* A Create, Update or Destroy that returns normally took effect, unless another
\* thread came between its write and its getLastError, whatever the number of
\* threads, calls and reconnections.
THEOREM NormalReturns == Spec => []NormalReturnTookEffect
<1>1. Inv => NormalReturnTookEffect
  BY DEF Inv, IInv
<1> QED
  BY <1>1, Invariance, PTL

-----------------------------------------------------------------------------
(***************************************************************************)
(* SaveableItem implements Store.                                          *)
(***************************************************************************)

Write(m) == [ask |-> m.ask, item |-> m.item, val |-> m.val]

\* A write of an ended call is on one of the wires wr.
IsStray(w, wr) ==
    \E c \in Connections : \E k \in 1 .. Len(wr[c]) :
        wr[c][k].from = Nobody /\ wr[c][k].ask \in Writes /\ w = Write(wr[c][k])

\* The stray writes, by their places.
LEMMA StrayIs ==
    (\A w : w \in Stray <=> IsStray(w, wire)) /\ (\A w : w \in Stray' <=> IsStray(w, wire'))
  BY DEF Stray, Sends, IsStray, Write

\* The effect of a write does not depend on its sender.
LEMMA EffectSame ==
    ASSUME NEW m, NEW w, NEW d, m.ask = w.ask, m.item = w.item, m.val = w.val
    PROVE  S!Effect(m, d) = S!Effect(w, d)
  BY DEF S!Effect

\* The calls are calls of Store.
LEMMA OpType ==
    ASSUME TypeOK
    PROVE  Op \in [Threads -> S!Ops]
<1>1. \A t \in Threads : call[t] \in Calls
  BY DEF TypeOK
<1> QED
  BY <1>1 DEF Op, S!Ops, Calls, Writes

\* The beginning of a call is one of Store.
LEMMA BeginRefines ==
    ASSUME IInv, NEW t \in Threads, NEW at \in {"begin", "fetch"},
           NEW ask \in Writes \cup {"load"}, NEW i \in Items, NEW v \in Values,
           Begin(t, at, ask, i, v)
    PROVE  S!Begin(t)
<1>1. /\ t \notin Active
      /\ call' = [call EXCEPT ![t] = [at |-> at, ask |-> ask, item |-> i, val |-> v]]
      /\ applied' = applied \ {t}
      /\ overlap' = IF Active = {} THEN overlap \ {t} ELSE overlap \cup Active \cup {t}
      /\ doc' = doc /\ wire' = wire
  BY DEF Begin, server
<1>2. call \in [Threads -> Calls]
  BY DEF IInv, TypeOK
<1>3. Active' = Active \cup {t}
  BY <1>1, <1>2 DEF Active
<1>4. \E w \in S!Ops : Op' = [Op EXCEPT ![t] = w]
  <2> DEFINE w == [ask |-> ask, item |-> i, val |-> v]
  <2>1. w \in S!Ops
    BY DEF S!Ops, Writes
  <2>2. Op' = [Op EXCEPT ![t] = w]
    BY <1>1, <1>2 DEF Op
  <2> QED
    BY <2>1, <2>2
<1>5. Stray' = Stray
  BY <1>1 DEF Stray, Sends
<1> QED
  BY <1>1, <1>3, <1>4, <1>5 DEF S!Begin

\* A send is invisible in Store.
LEMMA SendRefines ==
    ASSUME IInv, NEW t \in Threads, NEW d \in Connections \cup {0}, SendsOn(t, d)
    PROVE  UNCHANGED S!vars
<1>1. doc' = doc /\ applied' = applied /\ overlap' = overlap
  BY DEF SendsOn, server
<1>2. Active' = Active /\ Op' = Op
  <2>1. /\ call[t].at \in Sending /\ After(call[t].at) # "idle"
    BY DEF SendsOn, After
  <2>2. Active' = Active
    BY <2>1, SendsGrow DEF Active, Sending
  <2>3. \A u \in Threads : /\ call'[u].ask = call[u].ask /\ call'[u].item = call[u].item
                           /\ call'[u].val = call[u].val
    BY SendsGrow
  <2> QED
    BY <2>2, <2>3 DEF Op
<1>3. Stray' = Stray
  <2>1. Sent(t).from # Nobody
    BY DocumentsAssumption DEF Sent
  <2>2. \A w : IsStray(w, wire) => IsStray(w, wire')
    <3> SUFFICES ASSUME NEW c \in Connections, NEW k \in 1 .. Len(wire[c])
                 PROVE  k \in 1 .. Len(wire'[c]) /\ wire'[c][k] = wire[c][k]
      BY DEF IsStray
    <3> QED
      BY SendsGrow
  <2>3. \A w : IsStray(w, wire') => IsStray(w, wire)
    <3> SUFFICES ASSUME NEW c \in Connections, NEW k \in 1 .. Len(wire'[c]),
                        wire'[c][k].from = Nobody
                 PROVE  k \in 1 .. Len(wire[c]) /\ wire'[c][k] = wire[c][k]
      BY DEF IsStray
    <3> QED
      BY <2>1, SendsGrow
  <2> QED
    BY <2>2, <2>3, StrayIs
<1> QED
  BY <1>1, <1>2, <1>3 DEF S!vars

\* The end of a call is one of Store.
LEMMA EndRefines ==
    ASSUME IInv, NEW t \in Threads, t \in Active, EndsWell(t)
    PROVE  S!Return(t) \/ S!Throw(t)
<1>1. PICK how \in {"returned", "thrown"}, rs \in {replies, Tail(replies)} :
           /\ Left(rs) /\ Ends(t, how, rs)
           /\ how = "returned" => call[t].ask = "load" \/ t \in applied \cup mixed
  BY DEF EndsWell
<1>2. /\ call' = [call EXCEPT ![t].at = "idle"]
      /\ wire' = [c \in Connections |-> Disowned(t, wire[c])]
      /\ doc' = doc /\ applied' = applied /\ overlap' = overlap
  BY <1>1 DEF Ends, server
<1>3. call \in [Threads -> Calls] /\ wire \in [Connections -> Seq(Messages)]
  BY DEF IInv, TypeOK
<1>4. /\ \A u \in Threads \ {t} : call'[u] = call[u]
      /\ call'[t].at = "idle" /\ call'[t].ask = call[t].ask
      /\ call'[t].item = call[t].item /\ call'[t].val = call[t].val
  BY <1>2, <1>3 DEF Calls
<1>5. Active' = Active \ {t}
  BY <1>4 DEF Active
<1>6. Op' = Op
  BY <1>4 DEF Op
<1>7. Stray' \subseteq Stray \cup (IF t \in applied THEN {} ELSE {Op[t]})
  <2> SUFFICES ASSUME NEW w, IsStray(w, wire')
               PROVE  w \in Stray \/ (t \notin applied /\ w = Op[t])
    BY StrayIs
  <2>0. PICK c \in Connections : \E k \in 1 .. Len(wire'[c]) :
             /\ wire'[c][k].from = Nobody /\ wire'[c][k].ask \in Writes /\ w = Write(wire'[c][k])
    BY DEF IsStray
  <2>1. PICK k \in 1 .. Len(wire'[c]) :
             /\ wire'[c][k].from = Nobody /\ wire'[c][k].ask \in Writes /\ w = Write(wire'[c][k])
    BY <2>0
  <2>2. /\ k \in 1 .. Len(wire[c])
        /\ wire'[c][k].from = (IF wire[c][k].from = t THEN Nobody ELSE wire[c][k].from)
        /\ wire'[c][k].ask = wire[c][k].ask
        /\ wire'[c][k].item = wire[c][k].item /\ wire'[c][k].val = wire[c][k].val
    BY <1>2, <1>3, DisownedType
  <2>3. w = Write(wire[c][k])
    BY <2>1, <2>2 DEF Write
  <2>4. CASE wire[c][k].from = t
    <3>1. /\ t \notin applied /\ wire[c][k].ask = call[t].ask
          /\ wire[c][k].item = call[t].item /\ wire[c][k].val = call[t].val
      BY <2>1, <2>2, <2>4, DocumentsAssumption DEF IInv, WriteIsCalls
    <3> QED
      BY <2>3, <3>1 DEF Op, Write
  <2>5. CASE wire[c][k].from # t
    <3>1. IsStray(w, wire)
      BY <2>1, <2>2, <2>3, <2>5 DEF IsStray
    <3> QED
      BY <3>1, StrayIs
  <2> QED
    BY <2>4, <2>5
<1>8. S!Leaves(t)
  BY <1>2, <1>5, <1>6, <1>7 DEF S!Leaves
<1>9. CASE how = "returned"
  <2>1. Op[t].ask = "load" \/ t \in applied \cup overlap
    BY <1>1, <1>9 DEF Op, IInv, Overlaps
  <2> QED
    BY <1>8, <2>1 DEF S!Return
<1>10. CASE how = "thrown"
  BY <1>8 DEF S!Throw
<1> QED
  BY <1>9, <1>10

\* A receipt in the middle of a call is invisible in Store.
LEMMA GoesOnRefines ==
    ASSUME IInv, NEW t \in Threads, t \in Active, NEW at \in {"fetch", "empty"}, GoesOn(t, at)
    PROVE  UNCHANGED S!vars
<1>1. /\ call' = [call EXCEPT ![t].at = at]
      /\ doc' = doc /\ wire' = wire /\ applied' = applied /\ overlap' = overlap
  BY DEF GoesOn, server, history
<1>2. call \in [Threads -> Calls]
  BY DEF IInv, TypeOK
<1>3. /\ \A u \in Threads \ {t} : call'[u] = call[u]
      /\ call'[t].at # "idle" /\ call'[t].ask = call[t].ask
      /\ call'[t].item = call[t].item /\ call'[t].val = call[t].val
  BY <1>1, <1>2 DEF Calls
<1>4. Active' = Active
  BY <1>3 DEF Active
<1>5. Op' = Op
  BY <1>3 DEF Op
<1>6. Stray' = Stray
  BY <1>1 DEF Stray, Sends
<1> QED
  BY <1>1, <1>4, <1>5, <1>6 DEF S!vars

\* A message taken from a wire adds no stray write.
LEMMA StrayShrinks ==
    ASSUME IInv, NEW c \in Connections, Process(c) \/ Lost(c)
    PROVE  Stray' \subseteq Stray
<1>1. \A w : IsStray(w, wire') => IsStray(w, wire)
  <2> SUFFICES ASSUME NEW w, NEW x \in Connections, NEW k \in 1 .. Len(wire'[x]),
                      wire'[x][k].from = Nobody, wire'[x][k].ask \in Writes,
                      w = Write(wire'[x][k])
               PROVE  IsStray(w, wire)
    BY DEF IsStray
  <2>1. PICK l \in 1 .. Len(wire[x]) : wire'[x][k] = wire[x][l]
    BY WiresShrink
  <2> QED
    BY <2>1 DEF IsStray
<1> QED
  BY <1>1, StrayIs

\* A write takes effect in Store when the server takes it.
LEMMA ProcessRefines ==
    ASSUME IInv, NEW c \in Connections, Process(c)
    PROVE  S!Next
<1> DEFINE m == Head(wire[c])
<1>1. /\ wire[c] # << >> /\ wire' = [wire EXCEPT ![c] = Tail(@)]
      /\ call' = call /\ overlap' = overlap
  BY DEF Process
<1>2. /\ wire \in [Connections -> Seq(Messages)] /\ wire[c] \in Seq(Messages)
      /\ wire[c][1] = m /\ m \in Messages /\ Len(wire[c]) \in Nat /\ 1 \in 1 .. Len(wire[c])
      /\ m.from \in Threads \cup {Nobody}
  <2>1. wire \in [Connections -> Seq(Messages)] /\ wire[c] \in Seq(Messages) /\ Len(wire[c]) \in Nat
    BY MessageType DEF IInv, TypeOK
  <2>2. wire[c][1] = m /\ 1 \in 1 .. Len(wire[c])
    BY <1>1, <2>1
  <2> QED
    BY <2>1, <2>2, MessageType DEF IInv
<1>3. Active' = Active /\ Op' = Op
  BY <1>1 DEF Active, Op
<1>4. Stray' \subseteq Stray
  BY StrayShrinks
<1>5. CASE doc' = doc /\ applied' = applied
  BY <1>1, <1>3, <1>4, <1>5 DEF S!Next, S!Lose
<1>6. CASE /\ m.ask \in Writes
           /\ doc' = S!Effect(m, doc)
           /\ applied' = applied \cup ({m.from} \cap Threads)
  <2>1. CASE m.from = Nobody
    <3>1. Write(m) \in Stray
      <4>1. IsStray(Write(m), wire)
        BY <1>2, <1>6, <2>1 DEF IsStray
      <4> QED
        BY <4>1, StrayIs
    <3>2. doc' = S!Effect(Write(m), doc)
      <4>1. Write(m).ask = m.ask /\ Write(m).item = m.item /\ Write(m).val = m.val
        BY DEF Write
      <4> QED
        BY <1>6, <4>1, EffectSame
    <3>3. applied' = applied
      BY <1>6, <2>1, DocumentsAssumption
    <3> QED
      BY <1>1, <1>3, <1>4, <3>1, <3>2, <3>3 DEF S!Next, S!Late
  <2>2. CASE m.from \in Threads
    <3> DEFINE t == m.from
    <3>1. /\ t \in Active \ applied
          /\ m.ask = Op[t].ask /\ m.item = Op[t].item /\ m.val = Op[t].val
      <4>1. call[t].at # "idle"
        BY <1>2, <2>2, DocumentsAssumption DEF IInv, SenderActive
      <4>2. /\ t \notin applied /\ m.ask = call[t].ask
            /\ m.item = call[t].item /\ m.val = call[t].val
        BY <1>2, <1>6, <2>2, DocumentsAssumption DEF IInv, WriteIsCalls
      <4> QED
        BY <2>2, <4>1, <4>2 DEF Active, Op
    <3>2. doc' = S!Effect(Op[t], doc)
      BY <1>6, <3>1, EffectSame
    <3>3. applied' = applied \cup {t}
      BY <1>6, <2>2
    <3>4. Stray \subseteq Stray'
      <4>1. \A w : IsStray(w, wire) => IsStray(w, wire')
        <5> SUFFICES ASSUME NEW w, NEW x \in Connections, NEW k \in 1 .. Len(wire[x]),
                            wire[x][k].from = Nobody, wire[x][k].ask \in Writes,
                            w = Write(wire[x][k])
                     PROVE  IsStray(w, wire')
          BY DEF IsStray
        <5>1. CASE x # c
          <6>1. wire'[x] = wire[x]
            BY <1>1, <1>2, <5>1
          <6> QED
            BY <6>1 DEF IsStray
        <5>2. CASE x = c
          <6>1. k # 1
            BY <1>2, <2>2, <5>2, DocumentsAssumption
          <6>2. wire'[x] = Tail(wire[x])
            BY <1>1, <1>2, <5>2
          <6>3. k - 1 \in 1 .. Len(wire'[x]) /\ wire'[x][k - 1] = wire[x][k]
            BY <1>1, <1>2, <5>2, <6>1, <6>2
          <6> QED
            BY <6>3 DEF IsStray
        <5> QED
          BY <5>1, <5>2
      <4> QED
        BY <4>1, StrayIs
    <3> HIDE DEF t
    <3>5. Stray' = Stray
      BY <1>4, <3>4
    <3>6. S!Apply(t)
      BY <1>1, <1>3, <3>1, <3>2, <3>3, <3>5 DEF S!Apply
    <3>7. t \in Threads
      BY <2>2 DEF t
    <3> QED
      BY <3>6, <3>7 DEF S!Next
  <2> QED
    BY <1>2, <2>1, <2>2
<1> QED
  BY <1>5, <1>6 DEF Process

\* Every step is a step of Store or invisible there.
LEMMA StepRefines ==
    ASSUME Inv, [Next]_vars
    PROVE  [S!Next]_(S!vars)
<1>0. IInv
  BY DEF Inv
<1>1. ASSUME NEW t \in Threads, NEW i \in Items,
             \/ \E v \in Values : Create(t, i, v) \/ Update(t, i, v)
             \/ Destroy(t, i) \/ Load(t, i)
      PROVE  S!Next
  <2>1. S!Begin(t)
    BY <1>0, <1>1, CallBegins, BeginRefines DEF IInv
  <2> QED
    BY <2>1 DEF S!Next
<1>2. ASSUME NEW t \in Threads, Say(t) \/ Reconnect(t) PROVE UNCHANGED S!vars
  BY <1>0, <1>2, SayIsSend, ReconnectIsSend, SendRefines
<1>3. ASSUME NEW t \in Threads, SayThrows(t) \/ ReceiveOther(t) \/ ReceiveFails(t)
      PROVE  S!Next
  <2>1. S!Return(t) \/ S!Throw(t)
    BY <1>0, <1>3, ThrowCases, EndRefines
  <2> QED
    BY <2>1 DEF S!Next
<1>4. ASSUME NEW t \in Threads, Receive(t) PROVE S!Next \/ UNCHANGED S!vars
  <2>1. t \in Active
    BY <1>0, <1>4, ReceiveCases DEF Waiting, Active
  <2>2. CASE EndsWell(t)
    <3>1. S!Return(t) \/ S!Throw(t)
      BY <1>0, <2>1, <2>2, EndRefines
    <3> QED
      BY <3>1 DEF S!Next
  <2>3. CASE \E at \in {"fetch", "empty"} : GoesOn(t, at)
    BY <1>0, <2>1, <2>3, GoesOnRefines
  <2> QED
    BY <1>0, <1>4, <2>2, <2>3, ReceiveCases
<1>5. ASSUME NEW c \in Connections, Process(c) PROVE S!Next
  BY <1>0, <1>5, ProcessRefines
<1>6. ASSUME NEW c \in Connections, Lost(c) PROVE S!Next
  <2>1. Stray' \subseteq Stray
    BY <1>0, <1>6, StrayShrinks
  <2>2. doc' = doc /\ call' = call /\ applied' = applied /\ overlap' = overlap
    BY <1>6 DEF Lost, server, history
  <2>3. Active' = Active /\ Op' = Op
    BY <2>2 DEF Active, Op
  <2> QED
    BY <2>1, <2>2, <2>3 DEF S!Next, S!Lose
<1>7. CASE Break \/ UNCHANGED vars
  <2>1. doc' = doc /\ call' = call /\ applied' = applied /\ overlap' = overlap /\ wire' = wire
    BY <1>7 DEF Break, vars, server, history
  <2> QED
    BY <2>1 DEF S!vars, Active, Op, Stray, Sends
<1> QED
  BY <1>1, <1>2, <1>3, <1>4, <1>5, <1>6, <1>7 DEF Next

\* The initial states are initial states of Store.
LEMMA InitRefines == Init => S!Init
<1> SUFFICES ASSUME Init PROVE S!Init
  OBVIOUS
<1>1. TypeOK
  BY InitIInv DEF IInv
<1>2. Active = {}
  BY DEF Init, Active
<1>3. Stray = {}
  <2>1. \A w : ~ IsStray(w, wire)
    BY DEF Init, IsStray
  <2> QED
    BY <2>1, StrayIs
<1>4. Op \in [Threads -> S!Ops]
  BY <1>1, OpType
<1> QED
  BY <1>2, <1>3, <1>4 DEF Init, S!Init

\* SaveableItem over the shared, unlocked, breakable connection does only what
\* Store allows: a write takes effect at most once, a normal return without
\* another call running means it did, a throw leaves it open.
THEOREM Implements == Spec => ImplementsStore
<1>1. Inv /\ [Next]_vars => [S!Next]_(S!vars)
  BY StepRefines
<1> QED
  BY <1>1, InitRefines, Invariance, PTL DEF Spec, ImplementsStore, S!Spec

-----------------------------------------------------------------------------
(***************************************************************************)
(* Replies and waiting threads.                                            *)
(***************************************************************************)

\* The messages of s that will be answered.
Asks(s) == {k \in 1 .. Len(s) : s[k].ask \notin Writes}

\* A thread left on a replaced connection waits, and a connection still to come
\* carries nothing.
CutWait == cut \subseteq Waiting

Unopened == \A c \in Connections : c > conn => Len(wire[c]) = 0

QueueInv == CutWait /\ Unopened /\ RepliesMatchWaiters

\* There are finitely many questions on a wire.
LEMMA AsksFinite ==
    ASSUME NEW s, Len(s) \in Nat
    PROVE  IsFiniteSet(Asks(s)) /\ Cardinality(Asks(s)) \in Nat
<1>1. IsFiniteSet(1 .. Len(s)) /\ Asks(s) \in SUBSET (1 .. Len(s))
  BY FS_Interval DEF Asks
<1> QED
  BY <1>1, FS_Subset, FS_CardinalityType

\* The same questions, whoever asks.
LEMMA AsksSame ==
    ASSUME NEW s, NEW r, Len(r) = Len(s), \A k \in 1 .. Len(s) : r[k].ask = s[k].ask
    PROVE  Asks(r) = Asks(s)
  BY DEF Asks

\* One more message, and whether it is a question.
LEMMA AsksAppend ==
    ASSUME NEW s \in Seq(Messages), NEW m \in Messages
    PROVE  Cardinality(Asks(Append(s, m)))
              = Cardinality(Asks(s)) + (IF m.ask \in Writes THEN 0 ELSE 1)
<1>1. PICK n \in Nat : n = Len(s)
  OBVIOUS
<1>2. PICK r : r = Append(s, m)
  OBVIOUS
<1>3. Len(r) = n + 1 /\ r[n + 1] = m /\ \A k \in 1 .. n : r[k] = s[k]
  BY <1>1, <1>2
<1>4. IsFiniteSet(Asks(s)) /\ Cardinality(Asks(s)) \in Nat
  BY <1>1, AsksFinite
<1>5. n + 1 \notin Asks(s)
  BY <1>1 DEF Asks
<1>6. CASE m.ask \in Writes
  <2>1. Asks(r) = Asks(s)
    BY <1>1, <1>3, <1>6 DEF Asks
  <2> QED
    BY <1>2, <1>4, <1>6, <2>1
<1>7. CASE m.ask \notin Writes
  <2>1. Asks(r) = Asks(s) \cup {n + 1}
    BY <1>1, <1>3, <1>7 DEF Asks
  <2>2. Cardinality(Asks(s) \cup {n + 1}) = Cardinality(Asks(s)) + 1
    BY <1>4, <1>5, FS_AddElement
  <2> QED
    BY <1>2, <1>7, <2>1, <2>2
<1> QED
  BY <1>6, <1>7

\* The first message goes.
LEMMA AsksTail ==
    ASSUME NEW s \in Seq(Messages), s # << >>
    PROVE  Cardinality(Asks(s))
              = Cardinality(Asks(Tail(s))) + (IF s[1].ask \in Writes THEN 0 ELSE 1)
<1>1. PICK n \in Nat : n = Len(s) /\ n >= 1
  OBVIOUS
<1>2. PICK r : r = Tail(s)
  OBVIOUS
<1>3. Len(r) = n - 1 /\ \A k \in 1 .. n - 1 : r[k] = s[k + 1]
  BY <1>1, <1>2
<1>4. /\ IsFiniteSet(Asks(s)) /\ Cardinality(Asks(s)) \in Nat
      /\ IsFiniteSet(Asks(r)) /\ Cardinality(Asks(r)) \in Nat
  BY <1>1, <1>3, AsksFinite
<1> DEFINE Rest == Asks(s) \ {1}
<1> DEFINE f == [k \in Asks(r) |-> k + 1]
<1>5. f \in Bijection(Asks(r), Rest)
  <2>1. \A k \in Asks(r) : k \in 1 .. n - 1 /\ k + 1 \in Asks(s) /\ k + 1 # 1
    BY <1>1, <1>3 DEF Asks
  <2>2. f \in [Asks(r) -> Rest]
    BY <2>1
  <2>3. \A j, k \in Asks(r) : f[j] = f[k] => j = k
    BY <2>1
  <2>4. ASSUME NEW k \in Rest PROVE \E j \in Asks(r) : f[j] = k
    <3>1. k \in 1 .. n /\ k # 1 /\ s[k].ask \notin Writes
      BY <1>1 DEF Asks
    <3>2. k - 1 \in 1 .. n - 1 /\ (k - 1) + 1 = k
      BY <1>1, <3>1
    <3>3. k - 1 \in Asks(r)
      BY <1>3, <3>1, <3>2 DEF Asks
    <3> QED
      BY <3>2, <3>3
  <2> HIDE DEF f
  <2>5. f \in Injection(Asks(r), Rest)
    BY <2>2, <2>3 DEF Injection, IsInjective
  <2>6. f \in Surjection(Asks(r), Rest)
    BY <2>2, <2>4 DEF Surjection
  <2> QED
    BY <2>5, <2>6 DEF Bijection
<1>6. Cardinality(Rest) = Cardinality(Asks(r))
  <2> HIDE DEF f
  <2>1. ExistsBijection(Asks(r), Rest)
    BY <1>5 DEF ExistsBijection
  <2> QED
    BY <1>4, <2>1, FS_Bijection
<1>7. 1 \in Asks(s) <=> s[1].ask \notin Writes
  BY <1>1 DEF Asks
<1>8. Cardinality(Rest) = IF 1 \in Asks(s) THEN Cardinality(Asks(s)) - 1 ELSE Cardinality(Asks(s))
  BY <1>4, FS_RemoveElement
<1> QED
  BY <1>2, <1>4, <1>6, <1>7, <1>8

\* What the properties count.
LEMMA QueueCounts ==
    ASSUME TypeOK
    PROVE  /\ RepliesMatchWaiters <=>
                 (up => Cardinality(Waiting \ cut) = Len(replies) + Cardinality(Asks(wire[conn])))
           /\ IsFiniteSet(Waiting \ cut) /\ Cardinality(Waiting \ cut) \in Nat
           /\ replies \in Seq(Replies) /\ Len(replies) \in Nat
           /\ wire[conn] \in Seq(Messages) /\ Len(wire[conn]) \in Nat
           /\ Cardinality(Asks(wire[conn])) \in Nat
<1>1. wire[conn] \in Seq(Messages) /\ Len(wire[conn]) \in Nat
  BY MessageType DEF TypeOK
<1>2. Waiting \ cut \in SUBSET Threads
  BY DEF Waiting
<1>3. IsFiniteSet(Waiting \ cut) /\ Cardinality(Waiting \ cut) \in Nat
  BY <1>2, DocumentsAssumption, FS_Subset, FS_CardinalityType
<1>4. Cardinality(Asks(wire[conn])) \in Nat
  BY <1>1, AsksFinite
<1>5. replies \in Seq(Replies) /\ Len(replies) \in Nat
  BY DEF TypeOK
<1> QED
  BY <1>1, <1>3, <1>4, <1>5 DEF RepliesMatchWaiters, Asks

\* Nothing that is counted changes.
LEMMA QueueSame ==
    ASSUME TypeOK, QueueInv, Waiting' = Waiting, cut' = cut, conn' = conn,
           Len(replies') = Len(replies), up' => up,
           \A c \in Connections : Len(wire'[c]) = Len(wire[c]) \/ Len(wire'[c]) = 0,
           up' => Asks(wire'[conn]) = Asks(wire[conn])
    PROVE  QueueInv'
<1>1. CutWait'
  BY DEF QueueInv, CutWait
<1>2. Unopened'
  BY DEF QueueInv, Unopened
<1>3. RepliesMatchWaiters'
  BY QueueCounts DEF QueueInv, RepliesMatchWaiters, Asks
<1> QED
  BY <1>1, <1>2, <1>3 DEF QueueInv

\* The end of a call that took a reply it waited for, or that does not count.
LEMMA EndsQueue ==
    ASSUME TypeOK, QueueInv, NEW t \in Threads, NEW how, NEW rs, Ends(t, how, rs),
           \/ rs = replies /\ (t \notin Waiting \/ t \in cut \/ ~ up)
           \/ rs = Tail(replies) /\ replies # << >> /\ t \in Waiting \ cut
    PROVE  QueueInv'
<1>1. /\ call \in [Threads -> Calls] /\ wire \in [Connections -> Seq(Messages)]
      /\ replies \in Seq(Replies) /\ conn \in Connections
  BY DEF TypeOK
<1>2. /\ call' = [call EXCEPT ![t].at = "idle"] /\ conn' = conn /\ up' = up
      /\ wire' = [c \in Connections |-> Disowned(t, wire[c])]
      /\ replies' = Unanswered(t, rs) /\ cut' = cut \ {t}
  BY DEF Ends
<1>3. Waiting' = Waiting \ {t}
  <2>1. call'[t].at = "idle" /\ \A u \in Threads \ {t} : call'[u] = call[u]
    BY <1>1, <1>2 DEF Calls
  <2> QED
    BY <2>1 DEF Waiting
<1>4. \A c \in Connections : Len(wire'[c]) = Len(wire[c]) /\ Asks(wire'[c]) = Asks(wire[c])
  <2> SUFFICES ASSUME NEW c \in Connections
               PROVE  Len(wire'[c]) = Len(wire[c]) /\ Asks(wire'[c]) = Asks(wire[c])
    OBVIOUS
  <2>1. /\ Len(wire'[c]) = Len(wire[c])
        /\ \A k \in 1 .. Len(wire[c]) : wire'[c][k].ask = wire[c][k].ask
    BY <1>1, <1>2, DisownedType
  <2> QED
    BY <2>1, AsksSame
<1>5. CutWait'
  BY <1>2, <1>3 DEF QueueInv, CutWait
<1>6. Unopened'
  BY <1>2, <1>4 DEF QueueInv, Unopened
<1>7. Asks(wire'[conn']) = Asks(wire[conn])
  BY <1>1, <1>2, <1>4
<1>8. CASE rs = replies /\ (t \notin Waiting \/ t \in cut \/ ~ up)
  <2>1. Len(replies') = Len(replies)
    BY <1>1, <1>2, <1>8, UnansweredType
  <2>2. up => Waiting' \ cut' = Waiting \ cut
    BY <1>2, <1>3, <1>8 DEF QueueInv, CutWait
  <2>3. RepliesMatchWaiters'
    BY <1>2, <1>7, <2>1, <2>2, QueueCounts DEF QueueInv, RepliesMatchWaiters, Asks
  <2> QED
    BY <1>5, <1>6, <2>3 DEF QueueInv
<1>9. CASE rs = Tail(replies) /\ replies # << >> /\ t \in Waiting \ cut
  <2>1. rs \in Seq(Replies) /\ Len(rs) = Len(replies) - 1
    BY <1>1, <1>9
  <2>2. Len(replies') = Len(replies) - 1
    BY <1>2, <2>1, UnansweredType
  <2>3. Waiting' \ cut' = (Waiting \ cut) \ {t}
    BY <1>2, <1>3
  <2>4. Cardinality(Waiting' \ cut') = Cardinality(Waiting \ cut) - 1
    BY <1>9, <2>3, QueueCounts, FS_RemoveElement
  <2>5. RepliesMatchWaiters'
    <3>1. up => Cardinality(Waiting \ cut) = Len(replies) + Cardinality(Asks(wire[conn]))
      BY QueueCounts DEF QueueInv
    <3>2. up => Cardinality(Waiting' \ cut') = Len(replies') + Cardinality(Asks(wire'[conn']))
      BY <1>7, <2>2, <2>4, <3>1, QueueCounts
    <3> QED
      BY <1>2, <3>2 DEF RepliesMatchWaiters, Asks
  <2> QED
    BY <1>5, <1>6, <2>5 DEF QueueInv
<1> QED
  BY <1>8, <1>9

\* Who waits after t sent its message, and what the message asks.
LEMMA SendWaits ==
    ASSUME IInv, NEW t \in Threads, call[t].at \in Sending,
           call' = [call EXCEPT ![t].at = After(@)]
    PROVE  /\ t \notin Waiting /\ Sent(t) \in Messages
           /\ Waiting' = IF Sent(t).ask \in Writes THEN Waiting ELSE Waiting \cup {t}
<1>1. call \in [Threads -> Calls] /\ call[t] \in Calls
  BY DEF IInv, TypeOK
<1>2. /\ Sent(t) \in Messages
      /\ call[t].at = "begin" => Sent(t).ask = call[t].ask /\ call[t].ask \in Writes
      /\ call[t].at \in {"said", "empty"} => Sent(t).ask = "check"
      /\ call[t].at = "fetch" => Sent(t).ask = "fetch"
  BY SentType DEF IInv, CallShape
<1>3. t \notin Waiting
  BY DEF Waiting, Sending
<1>4. call'[t].at = After(call[t].at) /\ \A u \in Threads \ {t} : call'[u] = call[u]
  BY <1>1 DEF Calls
<1>5. Sent(t).ask \in Writes <=> call[t].at = "begin"
  BY <1>2 DEF Sending, Writes
<1>6. call'[t].at \in {"checking", "fetching", "asking"} <=> call[t].at # "begin"
  BY <1>4 DEF After, Sending
<1> QED
  BY <1>2, <1>3, <1>4, <1>5, <1>6 DEF Waiting

\* A thread that sends a question on the live connection will be answered once.
LEMMA SayQueue ==
    ASSUME IInv, QueueInv, NEW t \in Threads, Say(t)
    PROVE  QueueInv'
<1>1. /\ call[t].at \in Sending /\ call' = [call EXCEPT ![t].at = After(@)]
      /\ wire' = [wire EXCEPT ![conn] = IF up THEN Append(@, Sent(t)) ELSE @]
      /\ conn' = conn /\ up' = up /\ replies' = replies /\ cut' = cut
  BY DEF Say, client
<1>2. TypeOK /\ conn \in Connections /\ wire \in [Connections -> Seq(Messages)]
  BY DEF IInv, TypeOK
<1>3. /\ t \notin Waiting /\ Sent(t) \in Messages
      /\ Waiting' = IF Sent(t).ask \in Writes THEN Waiting ELSE Waiting \cup {t}
  BY <1>1, SendWaits
<1>4. CutWait'
  BY <1>1, <1>3 DEF QueueInv, CutWait
<1>5. Unopened'
  <2>1. \A c \in Connections : c > conn => wire'[c] = wire[c]
    BY <1>1, <1>2 DEF Connections
  <2> QED
    BY <1>1, <2>1 DEF QueueInv, Unopened
<1>6. RepliesMatchWaiters'
  <2> SUFFICES ASSUME up
               PROVE  Cardinality(Waiting' \ cut') = Len(replies') + Cardinality(Asks(wire'[conn']))
    BY <1>1 DEF RepliesMatchWaiters, Asks
  <2>1. wire'[conn] = Append(wire[conn], Sent(t)) /\ wire[conn] \in Seq(Messages)
    BY <1>1, <1>2
  <2>2. Cardinality(Asks(wire'[conn]))
           = Cardinality(Asks(wire[conn])) + (IF Sent(t).ask \in Writes THEN 0 ELSE 1)
    BY <1>3, <2>1, AsksAppend
  <2>3. Cardinality(Waiting \ cut) = Len(replies) + Cardinality(Asks(wire[conn]))
    BY <1>2, QueueCounts DEF QueueInv
  <2>4. Cardinality(Waiting' \ cut')
           = Cardinality(Waiting \ cut) + (IF Sent(t).ask \in Writes THEN 0 ELSE 1)
    <3>1. IsFiniteSet(Waiting \ cut) /\ Cardinality(Waiting \ cut) \in Nat
      BY <1>2, QueueCounts
    <3>2. CASE Sent(t).ask \in Writes
      BY <1>1, <1>3, <3>1, <3>2
    <3>3. CASE Sent(t).ask \notin Writes
      <4>1. Waiting' \ cut' = (Waiting \ cut) \cup {t} /\ t \notin Waiting \ cut
        BY <1>1, <1>3, <3>3 DEF QueueInv, CutWait
      <4>2. Cardinality((Waiting \ cut) \cup {t}) = Cardinality(Waiting \ cut) + 1
        BY <3>1, <4>1, FS_AddElement
      <4> QED
        BY <3>3, <4>1, <4>2
    <3> QED
      BY <3>2, <3>3
  <2>5. Len(replies) \in Nat /\ Cardinality(Asks(wire[conn])) \in Nat
    BY <1>2, QueueCounts
  <2> QED
    BY <1>1, <2>2, <2>3, <2>4, <2>5
<1> QED
  BY <1>4, <1>5, <1>6 DEF QueueInv

\* A new connection starts with the message of the thread that made it; all who
\* waited are cut off.
LEMMA ReconnectQueue ==
    ASSUME IInv, QueueInv, NEW t \in Threads, Reconnect(t)
    PROVE  QueueInv'
<1>1. /\ call[t].at \in Sending /\ call' = [call EXCEPT ![t].at = After(@)]
      /\ wire' = [wire EXCEPT ![conn + 1] = Append(@, Sent(t))]
      /\ conn' = conn + 1 /\ replies' = << >> /\ cut' = cut \cup Waiting
  BY DEF Reconnect
<1>2. /\ TypeOK /\ conn \in Connections /\ conn + 1 \in Connections
      /\ wire \in [Connections -> Seq(Messages)]
  BY DocumentsAssumption DEF IInv, TypeOK, Connections, Reconnect
<1>3. /\ t \notin Waiting /\ Sent(t) \in Messages
      /\ Waiting' = IF Sent(t).ask \in Writes THEN Waiting ELSE Waiting \cup {t}
  BY <1>1, SendWaits
<1>4. CutWait'
  BY <1>1, <1>3 DEF QueueInv, CutWait
<1>5. Unopened'
  <2>1. \A c \in Connections : c > conn + 1 => wire'[c] = wire[c] /\ c > conn
    BY <1>1, <1>2 DEF Connections
  <2> QED
    BY <1>1, <2>1 DEF QueueInv, Unopened
<1>6. RepliesMatchWaiters'
  <2>1. wire[conn + 1] \in Seq(Messages) /\ Len(wire[conn + 1]) = 0
    BY <1>2 DEF QueueInv, Unopened, Connections
  <2>2. wire'[conn + 1] = Append(wire[conn + 1], Sent(t))
    BY <1>1, <1>2
  <2>3. Cardinality(Asks(wire[conn + 1])) = 0
    <3>1. Asks(wire[conn + 1]) = {}
      BY <2>1 DEF Asks
    <3> QED
      BY <3>1, FS_EmptySet
  <2>4. Cardinality(Asks(wire'[conn + 1])) = IF Sent(t).ask \in Writes THEN 0 ELSE 1
    <3>1. Cardinality(Asks(Append(wire[conn + 1], Sent(t))))
             = Cardinality(Asks(wire[conn + 1])) + (IF Sent(t).ask \in Writes THEN 0 ELSE 1)
      BY <1>3, <2>1, AsksAppend
    <3> QED
      BY <2>2, <2>3, <3>1
  <2>5. Cardinality(Waiting' \ cut') = IF Sent(t).ask \in Writes THEN 0 ELSE 1
    <3>1. CASE Sent(t).ask \in Writes
      <4>1. Waiting' \ cut' = {}
        BY <1>1, <1>3, <3>1
      <4> QED
        BY <3>1, <4>1, FS_EmptySet
    <3>2. CASE Sent(t).ask \notin Writes
      <4>1. Waiting' \ cut' = {t}
        BY <1>1, <1>3, <3>2 DEF QueueInv, CutWait
      <4> QED
        BY <3>2, <4>1, FS_Singleton
    <3> QED
      BY <3>1, <3>2
  <2>6. Len(replies') = 0
    BY <1>1
  <2>7. Cardinality(Waiting' \ cut') = Len(replies') + Cardinality(Asks(wire'[conn']))
    BY <1>1, <2>4, <2>5, <2>6
  <2> QED
    BY <2>7 DEF RepliesMatchWaiters, Asks
<1> QED
  BY <1>4, <1>5, <1>6 DEF QueueInv

\* A thread that took its reply and will ask again.
LEMMA GoesOnQueue ==
    ASSUME IInv, QueueInv, NEW t \in Threads, t \in Waiting \ cut, replies # << >>,
           NEW at \in {"fetch", "empty"}, GoesOn(t, at)
    PROVE  QueueInv'
<1>1. /\ call' = [call EXCEPT ![t].at = at] /\ replies' = Tail(replies)
      /\ conn' = conn /\ up' = up /\ wire' = wire /\ cut' = cut
  BY DEF GoesOn
<1>2. TypeOK /\ call \in [Threads -> Calls] /\ replies \in Seq(Replies)
  BY DEF IInv, TypeOK
<1>3. Waiting' = Waiting \ {t}
  <2>1. call'[t].at = at /\ \A u \in Threads \ {t} : call'[u] = call[u]
    BY <1>1, <1>2 DEF Calls
  <2> QED
    BY <2>1 DEF Waiting
<1>4. CutWait' /\ Unopened'
  BY <1>1, <1>3 DEF QueueInv, CutWait, Unopened
<1>5. RepliesMatchWaiters'
  <2>1. Len(replies') = Len(replies) - 1
    BY <1>1, <1>2
  <2>2. Waiting' \ cut' = (Waiting \ cut) \ {t}
    BY <1>1, <1>3
  <2>3. Cardinality(Waiting' \ cut') = Cardinality(Waiting \ cut) - 1
    BY <1>2, <2>2, QueueCounts, FS_RemoveElement
  <2>4. up => Cardinality(Waiting \ cut) = Len(replies) + Cardinality(Asks(wire[conn]))
    BY <1>2, QueueCounts DEF QueueInv
  <2>5. up => Cardinality(Waiting' \ cut') = Len(replies') + Cardinality(Asks(wire'[conn']))
    BY <1>1, <1>2, <2>1, <2>3, <2>4, QueueCounts
  <2> QED
    BY <1>1, <2>5 DEF RepliesMatchWaiters, Asks
<1> QED
  BY <1>4, <1>5 DEF QueueInv

\* The server turns a question on the live connection into its reply.
LEMMA ProcessQueue ==
    ASSUME IInv, QueueInv, NEW c \in Connections, Process(c)
    PROVE  QueueInv'
<1>1. /\ wire[c] # << >> /\ wire' = [wire EXCEPT ![c] = Tail(@)]
      /\ call' = call /\ conn' = conn /\ up' = up /\ cut' = cut
  BY DEF Process, client
<1>2. /\ TypeOK /\ conn \in Connections /\ wire \in [Connections -> Seq(Messages)]
      /\ wire[c] \in Seq(Messages) /\ replies \in Seq(Replies)
      /\ wire[c][1] = Head(wire[c]) /\ Len(wire[c]) \in Nat /\ Len(wire[c]) > 0
  BY <1>1 DEF IInv, TypeOK
<1>3. Waiting' = Waiting
  BY <1>1 DEF Waiting
<1>4. CutWait'
  BY <1>1, <1>3 DEF QueueInv, CutWait
<1>5. Unopened'
  <2>1. ~ (c > conn)
    BY <1>2 DEF QueueInv, Unopened
  <2>2. \A d \in Connections : d > conn => wire'[d] = wire[d]
    BY <1>1, <1>2, <2>1
  <2> QED
    BY <1>1, <2>2 DEF QueueInv, Unopened
<1>6. RepliesMatchWaiters'
  <2> SUFFICES ASSUME up
               PROVE  Cardinality(Waiting' \ cut') = Len(replies') + Cardinality(Asks(wire'[conn']))
    BY <1>1 DEF RepliesMatchWaiters, Asks
  <2>1. Cardinality(Waiting \ cut) = Len(replies) + Cardinality(Asks(wire[conn]))
    BY <1>2, QueueCounts DEF QueueInv
  <2>2. Len(replies) \in Nat /\ Cardinality(Asks(wire[conn])) \in Nat
    BY <1>2, QueueCounts
  <2>3. CASE c # conn
    <3>1. replies' = replies
      BY <2>3 DEF Process
    <3>2. wire'[conn] = wire[conn]
      BY <1>1, <1>2, <2>3
    <3> QED
      BY <1>1, <1>3, <2>1, <3>1, <3>2
  <2>4. CASE c = conn
    <3>1. wire'[conn] = Tail(wire[conn])
      BY <1>1, <1>2, <2>4
    <3>2. Cardinality(Asks(wire[conn]))
             = Cardinality(Asks(wire'[conn])) + (IF wire[conn][1].ask \in Writes THEN 0 ELSE 1)
      BY <1>1, <1>2, <2>4, <3>1, AsksTail
    <3>3. Cardinality(Asks(wire'[conn])) \in Nat
      <4>1. Len(wire'[conn]) \in Nat
        BY <1>2, <2>4, <3>1
      <4> QED
        BY <4>1, AsksFinite
    <3>4. Len(replies') = Len(replies) + (IF wire[conn][1].ask \in Writes THEN 0 ELSE 1)
      <4>1. \A r : Len(Append(replies, r)) = Len(replies) + 1
        BY <1>2
      <4>2. CASE wire[conn][1].ask \in Writes
        BY <1>2, <2>2, <2>4, <4>2 DEF Process, Writes
      <4>3. CASE wire[conn][1].ask \notin Writes
        BY <1>2, <2>4, <4>1, <4>3 DEF Process
      <4> QED
        BY <4>2, <4>3
    <3> QED
      BY <1>1, <1>3, <2>1, <2>2, <3>2, <3>3, <3>4
  <2> QED
    BY <2>3, <2>4
<1> QED
  BY <1>4, <1>5, <1>6 DEF QueueInv

\* Every step keeps it.
LEMMA QueueStep == Inv /\ QueueInv /\ [Next]_vars => QueueInv'
<1> SUFFICES ASSUME Inv, QueueInv, [Next]_vars PROVE QueueInv'
  OBVIOUS
<1>0. IInv /\ TypeOK /\ call \in [Threads -> Calls] /\ conn \in Connections
      /\ wire \in [Connections -> Seq(Messages)]
  BY DEF Inv, IInv, TypeOK
<1>1. ASSUME NEW t \in Threads, NEW i \in Items,
             \/ \E v \in Values : Create(t, i, v) \/ Update(t, i, v)
             \/ Destroy(t, i) \/ Load(t, i)
      PROVE  QueueInv'
  <2>1. PICK at \in {"begin", "fetch"}, ask \in Writes \cup {"load"}, v \in Values :
           Begin(t, at, ask, i, v)
    BY <1>0, <1>1, CallBegins
  <2>2. /\ t \notin Active
        /\ call' = [call EXCEPT ![t] = [at |-> at, ask |-> ask, item |-> i, val |-> v]]
        /\ wire' = wire /\ replies' = replies /\ cut' = cut /\ conn' = conn /\ up' = up
    BY <2>1 DEF Begin, client
  <2>3. call'[t].at = at /\ \A u \in Threads \ {t} : call'[u] = call[u]
    BY <1>0, <2>2
  <2>4. Waiting' = Waiting
    BY <2>2, <2>3 DEF Waiting, Active
  <2> QED
    BY <1>0, <2>2, <2>4, QueueSame
<1>2. ASSUME NEW t \in Threads, Say(t) \/ Reconnect(t) PROVE QueueInv'
  BY <1>0, <1>2, SayQueue, ReconnectQueue
<1>3. ASSUME NEW t \in Threads, SayThrows(t) PROVE QueueInv'
  <2>1. Ends(t, "thrown", replies) /\ t \notin Waiting
    BY <1>3 DEF SayThrows, Sending, Waiting
  <2> QED
    BY <1>0, <2>1, EndsQueue
<1>4. ASSUME NEW t \in Threads, ReceiveOther(t) PROVE QueueInv'
  <2>1. Ends(t, "thrown", Tail(replies)) /\ t \in Waiting \ cut /\ replies # << >>
    BY <1>4 DEF ReceiveOther
  <2> QED
    BY <1>0, <2>1, EndsQueue
<1>5. ASSUME NEW t \in Threads, ReceiveFails(t) PROVE QueueInv'
  <2>1. Ends(t, "thrown", replies) /\ (t \in cut \/ ~ up)
    BY <1>5 DEF ReceiveFails
  <2> QED
    BY <1>0, <2>1, EndsQueue
<1>6. ASSUME NEW t \in Threads, Receive(t) PROVE QueueInv'
  <2>1. /\ t \in Waiting \ cut /\ replies # << >>
        /\ \/ \E how : Ends(t, how, Tail(replies))
           \/ \E at \in {"fetch", "empty"} : GoesOn(t, at)
    BY <1>6 DEF Receive
  <2>2. CASE \E how : Ends(t, how, Tail(replies))
    <3>1. PICK how : Ends(t, how, Tail(replies))
      BY <2>2
    <3> QED
      BY <1>0, <2>1, <3>1, EndsQueue
  <2> QED
    BY <1>0, <2>1, <2>2, GoesOnQueue
<1>7. ASSUME NEW c \in Connections, Process(c) PROVE QueueInv'
  BY <1>0, <1>7, ProcessQueue
<1>8. ASSUME NEW c \in Connections, Lost(c) PROVE QueueInv'
  <2>1. /\ wire' = [wire EXCEPT ![c] = << >>]
        /\ call' = call /\ replies' = replies /\ cut' = cut /\ conn' = conn /\ up' = up
    BY <1>8 DEF Lost, client
  <2>2. Waiting' = Waiting
    BY <2>1 DEF Waiting
  <2>3. wire' = [wire EXCEPT ![c] = << >>] /\ (up => c # conn)
    BY <1>8 DEF Lost
  <2>4. \A d \in Connections : wire'[d] = wire[d] \/ Len(wire'[d]) = 0
    BY <1>0, <2>3
  <2>5. up => wire'[conn] = wire[conn]
    BY <1>0, <2>3
  <2> QED
    BY <1>0, <2>1, <2>2, <2>4, <2>5, QueueSame
<1>9. CASE Break \/ UNCHANGED vars
  <2>1. /\ call' = call /\ replies' = replies /\ cut' = cut /\ conn' = conn /\ (up' => up)
        /\ wire' = wire
    BY <1>9 DEF Break, vars, client
  <2>2. Waiting' = Waiting
    BY <2>1 DEF Waiting
  <2> QED
    BY <1>0, <2>1, <2>2, QueueSame
<1> QED
  BY <1>1, <1>2, <1>3, <1>4, <1>5, <1>6, <1>7, <1>8, <1>9 DEF Next

\* On a live connection there are as many replies, come or to come, as threads
\* that wait on it: a thread that takes another's reply throws and gives up its
\* own, so nobody waits for ever and no reply is left over for a later call.
THEOREM RepliesMatch == Spec => []RepliesMatchWaiters
<1>1. Init => QueueInv
  <2> SUFFICES ASSUME Init PROVE QueueInv
    OBVIOUS
  <2>1. Waiting = {} /\ Waiting \ cut = {}
    BY DEF Init, Waiting
  <2>2. \A c \in Connections : wire[c] = << >>
    BY DEF Init
  <2>3. conn \in Connections /\ replies = << >>
    BY DocumentsAssumption DEF Init, Connections
  <2>4. {k \in 1 .. Len(wire[conn]) : wire[conn][k].ask \notin Writes} = {}
    BY <2>2, <2>3
  <2>5. RepliesMatchWaiters
    BY <2>1, <2>3, <2>4, FS_EmptySet DEF RepliesMatchWaiters
  <2>6. CutWait /\ Unopened
    BY <2>1, <2>2 DEF Init, CutWait, Unopened
  <2> QED
    BY <2>5, <2>6 DEF QueueInv
<1>2. QueueInv => RepliesMatchWaiters
  BY DEF QueueInv
<1> QED
  BY <1>1, <1>2, QueueStep, Invariance, PTL DEF Spec

-----------------------------------------------------------------------------
(***************************************************************************)
(* Items and documents.                                                    *)
(***************************************************************************)

\* The calls at work on item i.
On(i) == {t \in Active : call[t].item = i}

\* The insert of t has not been checked yet.
Inserting(t) == call[t].ask = "insert" /\ call[t].at \in {"begin", "said", "checking"}

\* No call on item i threw or was mixed, or is mixed now.
Clean(i) == i \notin doubtful /\ \A t \in On(i) : t \notin mixed

\* Where in its course a call can be.
Courses ==
    \A t \in Threads :
        /\ call[t].ask = "remove" => call[t].at \in {"idle", "begin", "said", "checking"}
        /\ call[t].ask = "load" => call[t].at \in {"idle", "fetch", "fetching"}
        /\ call[t].at \in {"empty", "asking"} => t \in applied \cup mixed

\* A message is about the item of its sender's call, and a loading call only
\* queries; a write that belongs to nobody any more has made its item doubtful,
\* and the item was created.
MessageFits(m) ==
    /\ m.from # Nobody =>
          m.item = call[m.from].item /\ (call[m.from].ask = "load" => m.ask = "fetch")
    /\ m.ask \in Writes => m.item \notin unused /\ (m.from = Nobody => m.item \in doubtful)

MessagesFit == \A c \in Connections : \A k \in 1 .. Len(wire[c]) : MessageFits(wire[c][k])

\* Nothing has happened to an item that was never created.
UnusedUntouched ==
    \A i \in unused : ~ obj[i].known /\ doc[i] = None /\ \A t \in On(i) : call[t].ask = "load"

\* Nobody else has an item that is being created or loaded.
Alone ==
    \A t \in Active : call[t].ask = "load" \/ Inserting(t) =>
        \A u \in On(call[t].item) : u = t

InsertHasNoId == \A t \in Active : Inserting(t) => ~ obj[call[t].item].known

\* What a loading call is told is still so.
LoadAnswers ==
    \A t \in Active :
        call[t].ask = "load" /\ (call[t].item \in unused \/ call[t].item \notin doubtful) =>
            \A k \in 1 .. Len(replies) :
                replies[k].to = t => (replies[k].val # None <=> doc[call[t].item] # None)

\* A removal of i has taken effect and its call still runs.
Removing(i) == \E t \in On(i) : call[t].ask = "remove" /\ t \in applied

\* The item and the document, whoever is at work on them: an item that is being
\* created has a document once the insert took effect, a removed one has none,
\* any other has an object id if there is a document, and the other way round
\* unless a removal is about to clear it.
Agree(i) ==
    /\ \A t \in On(i) : Inserting(t) => (doc[i] # None <=> t \in applied)
    /\ Removing(i) => doc[i] = None
    /\ (\A t \in On(i) : ~ Inserting(t) /\ call[t].ask # "load") =>
          /\ doc[i] # None => obj[i].known
          /\ obj[i].known => doc[i] # None \/ Removing(i)

ItemsAgree == \A i \in Items : Clean(i) => Agree(i)

ItemInv ==
    /\ Courses /\ MessagesFit /\ UnusedUntouched /\ Alone /\ InsertHasNoId
    /\ LoadAnswers /\ ItemsAgree

\* Nothing about item i changes.
LEMMA AgreeSame ==
    ASSUME NEW i, Agree(i), On(i)' = On(i),
           \A t \in On(i) : /\ Inserting(t)' <=> Inserting(t)
                            /\ call'[t].ask = call[t].ask
                            /\ t \in applied' <=> t \in applied,
           doc'[i] # None <=> doc[i] # None,
           obj'[i].known <=> obj[i].known
    PROVE  Agree(i)'
<1>1. Removing(i)' <=> Removing(i)
  BY DEF Removing
<1>2. (\A t \in On(i) : ~ Inserting(t) /\ call[t].ask # "load")
        <=> (\A t \in On(i)' : ~ Inserting(t)' /\ call'[t].ask # "load")
  OBVIOUS
<1>3. \A t \in On(i)' : Inserting(t)' => (doc'[i] # None <=> t \in applied')
  BY DEF Agree
<1>4. Removing(i)' => doc'[i] = None
  BY <1>1 DEF Agree
<1>5. (\A t \in On(i)' : ~ Inserting(t)' /\ call'[t].ask # "load") =>
          /\ doc'[i] # None => obj'[i].known
          /\ obj'[i].known => doc'[i] # None \/ Removing(i)'
  BY <1>1, <1>2 DEF Agree
<1> QED
  BY <1>3, <1>4, <1>5 DEF Agree

\* The calls at work on an item are the same when every call has its item and
\* none begins or ends.
LEMMA OnSame ==
    ASSUME \A u \in Threads : /\ call'[u].item = call[u].item
                              /\ call'[u].at = "idle" <=> call[u].at = "idle"
    PROVE  Active' = Active /\ \A i : On(i)' = On(i)
<1>1. Active' = Active
  BY DEF Active
<1> QED
  BY <1>1 DEF On, Active

\* A step of no consequence for items: no call begins, ends or gets past its
\* error check, and no document, object id or history of success changes.
LEMMA ItemsSame ==
    ASSUME Alone, InsertHasNoId, UnusedUntouched, ItemsAgree,
           \A u \in Threads : /\ call'[u].item = call[u].item
                              /\ call'[u].ask = call[u].ask
                              /\ call'[u].at = "idle" <=> call[u].at = "idle"
                              /\ Inserting(u)' <=> Inserting(u),
           doc' = doc, obj' = obj, unused' = unused, applied' = applied,
           mixed \subseteq mixed', doubtful \subseteq doubtful'
    PROVE  Alone' /\ InsertHasNoId' /\ UnusedUntouched' /\ ItemsAgree'
<1>1. Active' = Active /\ Active \subseteq Threads /\ \A i : On(i)' = On(i) /\ On(i) \subseteq Active
  BY OnSame DEF Active, On
<1>2. Alone'
  BY <1>1 DEF Alone
<1>3. InsertHasNoId'
  BY <1>1 DEF InsertHasNoId
<1>4. UnusedUntouched'
  BY <1>1 DEF UnusedUntouched
<1>5. ItemsAgree'
  <2> SUFFICES ASSUME NEW i \in Items, Clean(i)' PROVE Agree(i)'
    BY DEF ItemsAgree
  <2>1. Clean(i)
    BY <1>1 DEF Clean
  <2>2. Agree(i)
    BY <2>1 DEF ItemsAgree
  <2> QED
    BY <1>1, <2>2, AgreeSame
<1> QED
  BY <1>2, <1>3, <1>4, <1>5

\* A send.
LEMMA SendItems ==
    ASSUME IInv, ItemInv, NEW t \in Threads, NEW d \in Connections \cup {0}, SendsOn(t, d)
    PROVE  ItemInv'
<1>1. /\ call[t].at \in Sending /\ mixed \subseteq mixed' /\ replies' \in {replies, << >>}
      /\ doc' = doc /\ obj' = obj /\ unused' = unused /\ applied' = applied /\ doubtful' = doubtful
  BY DEF SendsOn, item, server
<1>2. /\ \A u \in Threads \ {t} : call'[u] = call[u]
      /\ call'[t].at = After(call[t].at) /\ call'[t].ask = call[t].ask
      /\ call'[t].item = call[t].item
  BY SendsGrow
<1>3. /\ call[t].at = "begin" => After(call[t].at) = "said"
      /\ call[t].at = "said" => After(call[t].at) = "checking"
      /\ call[t].at = "fetch" => After(call[t].at) = "fetching"
      /\ call[t].at = "empty" => After(call[t].at) = "asking"
  BY DEF After
<1>4. \A u \in Threads : /\ call'[u].item = call[u].item /\ call'[u].ask = call[u].ask
                         /\ call'[u].at = "idle" <=> call[u].at = "idle"
                         /\ Inserting(u)' <=> Inserting(u)
  <2>1. (call'[t].at = "idle" <=> call[t].at = "idle") /\ (Inserting(t)' <=> Inserting(t))
    BY <1>1, <1>2, <1>3 DEF Sending, Inserting
  <2> QED
    BY <1>2, <2>1 DEF Inserting
<1>5. Alone' /\ InsertHasNoId' /\ UnusedUntouched' /\ ItemsAgree'
  BY <1>1, <1>4, ItemsSame DEF ItemInv
<1>6. Active' = Active
  BY <1>4, OnSame
<1>7. Courses'
  <2> SUFFICES ASSUME NEW u \in Threads
               PROVE  /\ call'[u].ask = "remove" => call'[u].at \in {"idle", "begin", "said", "checking"}
                      /\ call'[u].ask = "load" => call'[u].at \in {"idle", "fetch", "fetching"}
                      /\ call'[u].at \in {"empty", "asking"} => u \in applied' \cup mixed'
    BY DEF Courses
  <2>1. CASE u = t
    BY <1>1, <1>2, <1>3, <2>1 DEF ItemInv, Courses, Sending
  <2>2. CASE u # t
    BY <1>1, <1>2, <2>2 DEF ItemInv, Courses
  <2> QED
    BY <2>1, <2>2
<1>8. LoadAnswers'
  <2>1. CASE replies' = replies
    BY <1>1, <1>4, <1>6, <2>1 DEF ItemInv, LoadAnswers, Active
  <2>2. CASE replies' = << >>
    BY <2>2 DEF LoadAnswers
  <2> QED
    BY <1>1, <2>1, <2>2
<1>9. MessagesFit'
  <2> SUFFICES ASSUME NEW c \in Connections, NEW k \in 1 .. Len(wire'[c])
               PROVE  MessageFits(wire[c][k])'
    BY DEF MessagesFit
  <2>1. PICK m : m = wire'[c][k]
    OBVIOUS
  <2>2. CASE k \in 1 .. Len(wire[c])
    <3>1. m = wire[c][k] /\ m.from \in Threads \cup {Nobody}
      BY <2>1, <2>2, SendsGrow, MessageType DEF IInv
    <3>2. MessageFits(m)
      BY <2>2, <3>1 DEF ItemInv, MessagesFit
    <3>3. MessageFits(m)'
      BY <1>1, <1>4, <3>1, <3>2 DEF MessageFits
    <3> QED
      BY <2>1, <3>3 DEF MessageFits
  <2>3. CASE c = d /\ k = Len(wire[c]) + 1
    <3>1. m = Sent(t)
      BY <2>1, <2>3, SendsGrow
    <3>2. /\ m.from = t /\ m.item = call[t].item
          /\ call[t].at = "begin" => m.ask = call[t].ask /\ call[t].ask \in Writes
          /\ call[t].at \in {"said", "empty"} => m.ask = "check"
          /\ call[t].at = "fetch" => m.ask = "fetch"
      BY <1>1, <3>1, SentType DEF IInv, CallShape
    <3>3. m.from # Nobody
      BY <3>2, DocumentsAssumption
    <3>4. call[t].ask = "load" => m.ask = "fetch"
      BY <1>1, <3>2 DEF ItemInv, Courses, Sending
    <3>5. m.ask \in Writes => m.item \notin unused
      <4> SUFFICES ASSUME m.ask \in Writes, m.item \in unused PROVE FALSE
        OBVIOUS
      <4>1. call[t].ask \in Writes
        BY <1>1, <3>2 DEF Sending, Writes
      <4>2. t \in On(m.item)
        BY <1>1, <3>2 DEF On, Active, Sending
      <4> QED
        BY <4>1, <4>2 DEF ItemInv, UnusedUntouched, Writes
    <3>6. MessageFits(m)'
      BY <1>1, <1>4, <3>2, <3>3, <3>4, <3>5 DEF MessageFits
    <3> QED
      BY <2>1, <3>6 DEF MessageFits
  <2> QED
    BY <2>2, <2>3, SendsGrow
<1> QED
  BY <1>5, <1>7, <1>8, <1>9 DEF ItemInv

\* A step that only takes messages or the connection away.
LEMMA QuietItems ==
    ASSUME IInv, ItemInv, call' = call, doc' = doc, obj' = obj, unused' = unused,
           applied' = applied, mixed' = mixed, doubtful' = doubtful, replies' = replies,
           \A x \in Connections : \A k \in 1 .. Len(wire'[x]) :
              \E l \in 1 .. Len(wire[x]) : wire'[x][k] = wire[x][l]
    PROVE  ItemInv'
<1>1. Alone' /\ InsertHasNoId' /\ UnusedUntouched' /\ ItemsAgree'
  <2>1. \A u \in Threads : Inserting(u)' <=> Inserting(u)
    BY DEF Inserting
  <2> QED
    BY <2>1, ItemsSame DEF ItemInv
<1>2. Courses' /\ LoadAnswers'
  BY DEF ItemInv, Courses, LoadAnswers, Active
<1>3. MessagesFit'
  <2> SUFFICES ASSUME NEW c \in Connections, NEW k \in 1 .. Len(wire'[c])
               PROVE  MessageFits(wire[c][k])'
    BY DEF MessagesFit
  <2>1. PICK l \in 1 .. Len(wire[c]) : wire'[c][k] = wire[c][l]
    OBVIOUS
  <2>2. MessageFits(wire[c][l])
    BY DEF ItemInv, MessagesFit
  <2> QED
    BY <2>1, <2>2 DEF MessageFits
<1> QED
  BY <1>1, <1>2, <1>3 DEF ItemInv

\* The three ways to begin a call on i: its creation, a write to an item that has
\* its object id, and the constructor of a new object.
Starts(at, ask, i) ==
    \/ /\ at = "begin" /\ ask = "insert" /\ i \in unused
       /\ unused' = unused \ {i} /\ obj' = obj
    \/ /\ at = "begin" /\ ask \in {"update", "remove"} /\ obj[i].known
       /\ unused' = unused /\ obj' = obj
    \/ /\ at = "fetch" /\ ask = "load" /\ unused' = unused
       /\ ~ obj'[i].known /\ \A j \in Items \ {i} : obj'[j] = obj[j]

LEMMA CallStarts ==
    ASSUME TypeOK, NEW t \in Threads, NEW i \in Items,
           \/ \E v \in Values : Create(t, i, v) \/ Update(t, i, v)
           \/ Destroy(t, i) \/ Load(t, i)
    PROVE  \E at, ask, v : Begin(t, at, ask, i, v) /\ Starts(at, ask, i)
<1>0. obj \in [Items -> [known : BOOLEAN, filled : BOOLEAN]]
  BY DEF TypeOK
<1>1. CASE \E v \in Values : Create(t, i, v)
  BY <1>1 DEF Create, Starts
<1>2. CASE \E v \in Values : Update(t, i, v)
  BY <1>2 DEF Update, Starts, item
<1>3. CASE Destroy(t, i)
  BY <1>3 DEF Destroy, Starts, item
<1>4. CASE Load(t, i)
  <2>1. Begin(t, "fetch", "load", i, call[t].val) /\ unused' = unused
        /\ obj' = [obj EXCEPT ![i] = [known |-> FALSE, filled |-> FALSE]]
    BY <1>4 DEF Load
  <2>2. obj'[i] = [known |-> FALSE, filled |-> FALSE] /\ \A j \in Items \ {i} : obj'[j] = obj[j]
    BY <1>0, <2>1
  <2>3. ~ obj'[i].known
    BY <2>2
  <2>4. Starts("fetch", "load", i)
    BY <2>1, <2>2, <2>3 DEF Starts
  <2> QED
    BY <2>1, <2>4
<1> QED
  BY <1>1, <1>2, <1>3, <1>4

\* A call begins.
LEMMA BeginItems ==
    ASSUME IInv, ItemInv, NEW t \in Threads, NEW i \in Items, NEW at, NEW ask, NEW v,
           Begin(t, at, ask, i, v), Starts(at, ask, i)
    PROVE  ItemInv'
<1>1. /\ t \notin Active
      /\ \A u \in Active : call[u].item = i => call[u].ask # "load" /\ ask # "load"
      /\ call' = [call EXCEPT ![t] = [at |-> at, ask |-> ask, item |-> i, val |-> v]]
      /\ applied' = applied \ {t} /\ mixed' = mixed \ {t}
      /\ doc' = doc /\ wire' = wire /\ replies' = replies /\ doubtful' = doubtful
  BY DEF Begin, server
<1>2. call \in [Threads -> Calls] /\ unused \in SUBSET Items /\ unused' \subseteq unused
  BY DEF IInv, TypeOK, Starts
<1>3. /\ call'[t] = [at |-> at, ask |-> ask, item |-> i, val |-> v]
      /\ \A u \in Threads \ {t} : call'[u] = call[u]
  BY <1>1, <1>2
<1>4. call'[t].at = at /\ call'[t].ask = ask /\ call'[t].item = i
  BY <1>3
<1>5. at \in {"begin", "fetch"} /\ ask \in {"insert", "update", "remove", "load"}
      /\ (at = "begin" <=> ask # "load")
  BY DEF Starts
<1>6. Active' = Active \cup {t} /\ Active \subseteq Threads /\ call[t].at = "idle"
  BY <1>1, <1>3, <1>4, <1>5 DEF Active
<1>7. /\ \A j : j # i => On(j)' = On(j)
      /\ On(i)' = On(i) \cup {t} /\ \A j : On(j) \subseteq Active
  <2>1. \A j : On(j) \subseteq Active
    BY DEF On
  <2>2. On(i)' = On(i) \cup {t}
    BY <1>1, <1>3, <1>4, <1>6 DEF On
  <2>3. \A j : j # i => On(j)' = On(j)
    BY <1>1, <1>3, <1>4, <1>6 DEF On
  <2> QED
    BY <2>1, <2>2, <2>3
<1>8. (Inserting(t)' <=> ask = "insert") /\ \A u \in Active : Inserting(u)' <=> Inserting(u)
  BY <1>1, <1>3, <1>4, <1>5, <1>6 DEF Inserting
<1>9. /\ \A u \in Active : u # t /\ call'[u] = call[u]
      /\ \A u \in Active : (u \in applied' <=> u \in applied) /\ (u \in mixed' <=> u \in mixed)
      /\ t \notin applied'
  BY <1>1, <1>3, <1>6
<1>10. ask \in {"insert", "load"} => On(i) = {}
  <2>1. ask = "load" => On(i) = {}
    BY <1>1 DEF On
  <2>2. ask = "insert" => On(i) = {}
    <3>1. ask = "insert" => i \in unused
      BY DEF Starts
    <3>2. ask = "insert" => \A u \in On(i) : call[u].ask = "load"
      BY <3>1 DEF ItemInv, UnusedUntouched
    <3> QED
      BY <1>1, <3>2 DEF On
  <2> QED
    BY <2>1, <2>2
<1>11. Courses'
  BY <1>1, <1>3, <1>4, <1>5 DEF ItemInv, Courses
<1>12. MessagesFit'
  <2> SUFFICES ASSUME NEW c \in Connections, NEW k \in 1 .. Len(wire'[c])
               PROVE  MessageFits(wire[c][k])'
    BY DEF MessagesFit
  <2>1. PICK m : m = wire[c][k]
    OBVIOUS
  <2>2. MessageFits(m) /\ m.from \in Threads \cup {Nobody} /\ k \in 1 .. Len(wire[c])
    BY <1>1, <2>1, MessageType DEF IInv, ItemInv, MessagesFit
  <2>3. m.from # t
    BY <1>6, <2>1, <2>2, DocumentsAssumption DEF IInv, SenderActive
  <2>4. MessageFits(m)'
    BY <1>1, <1>2, <1>3, <2>2, <2>3 DEF MessageFits
  <2> QED
    BY <1>1, <2>1, <2>4 DEF MessageFits
<1>13. UnusedUntouched'
  <2> SUFFICES ASSUME NEW j \in unused'
               PROVE  ~ obj'[j].known /\ doc'[j] = None /\ \A u \in On(j)' : call'[u].ask = "load"
    BY DEF UnusedUntouched
  <2>1. ~ obj[j].known /\ doc[j] = None /\ (\A u \in On(j) : call[u].ask = "load") /\ j \in Items
    BY <1>2 DEF ItemInv, UnusedUntouched
  <2>2. CASE j = i
    <3>1. ask = "load" /\ ~ obj'[i].known
      BY <2>1, <2>2 DEF Starts
    <3> QED
      BY <1>1, <1>4, <1>7, <1>10, <2>1, <2>2, <3>1
  <2>3. CASE j # i
    <3>1. obj'[j] = obj[j]
      BY <2>1, <2>3 DEF Starts
    <3> QED
      BY <1>1, <1>7, <1>9, <2>1, <2>3, <3>1
  <2> QED
    BY <2>2, <2>3
<1>14. Alone'
  <2> SUFFICES ASSUME NEW u \in Active', call'[u].ask = "load" \/ Inserting(u)',
                      NEW w \in Active', call'[w].item = call'[u].item
               PROVE  w = u
    BY DEF Alone, On
  <2>0. PICK x : x = call'[u].item
    OBVIOUS
  <2>1. CASE u = t
    <3>1. w \in On(i)' /\ On(i) = {}
      BY <1>4, <1>8, <1>10, <2>1 DEF On
    <3> QED
      BY <1>7, <2>1, <3>1
  <2>2. CASE u # t
    <3>1. u \in Active /\ call'[u] = call[u] /\ (call[u].ask = "load" \/ Inserting(u))
      BY <1>6, <1>8, <1>9, <2>2
    <3>2. \A y \in On(call[u].item) : y = u
      BY <3>1 DEF ItemInv, Alone
    <3>3. call[u].item # i
      <4> SUFFICES ASSUME call[u].item = i PROVE FALSE
        OBVIOUS
      <4>1. u \in On(i)
        BY <3>1 DEF On
      <4>2. ask \in {"update", "remove"} /\ obj[i].known
        BY <1>5, <1>10, <4>1 DEF Starts
      <4>3. Inserting(u)
        BY <1>1, <3>1
      <4> QED
        BY <3>1, <4>2, <4>3 DEF ItemInv, InsertHasNoId
    <3>4. w \in On(x)' /\ x # i /\ x = call[u].item
      BY <2>0, <3>1, <3>3 DEF On
    <3> QED
      BY <1>7, <3>2, <3>4
  <2> QED
    BY <2>1, <2>2
<1>15. InsertHasNoId'
  <2> SUFFICES ASSUME NEW u \in Active', Inserting(u)' PROVE ~ obj'[call'[u].item].known
    BY DEF InsertHasNoId
  <2>1. CASE u = t
    <3>1. i \in unused /\ obj' = obj
      BY <1>8, <2>1 DEF Starts
    <3> QED
      BY <1>4, <2>1, <3>1 DEF ItemInv, UnusedUntouched
  <2>2. CASE u # t
    <3>1. u \in Active /\ call'[u] = call[u] /\ Inserting(u)
      BY <1>6, <1>8, <1>9, <2>2
    <3>2. ~ obj[call[u].item].known /\ call[u].item \in Items
      BY <1>2, <1>6, <3>1 DEF ItemInv, InsertHasNoId, Calls
    <3>3. ~ obj'[call[u].item].known
      BY <3>2 DEF Starts
    <3> QED
      BY <3>1, <3>3
  <2> QED
    BY <2>1, <2>2
<1>16. LoadAnswers'
  <2> SUFFICES ASSUME NEW u \in Active', call'[u].ask = "load",
                      call'[u].item \in unused' \/ call'[u].item \notin doubtful',
                      NEW k \in 1 .. Len(replies'), replies'[k].to = u
               PROVE  replies'[k].val # None <=> doc'[call'[u].item] # None
    BY DEF LoadAnswers
  <2>1. u # t
    BY <1>1, <1>6 DEF IInv, NoEarlyCheck
  <2>2. u \in Active /\ call'[u] = call[u]
    BY <1>6, <1>9, <2>1
  <2> QED
    BY <1>1, <1>2, <2>2 DEF ItemInv, LoadAnswers
<1>17. ItemsAgree'
  <2> SUFFICES ASSUME NEW j \in Items, Clean(j)' PROVE Agree(j)'
    BY DEF ItemsAgree
  <2>1. On(j) \subseteq On(j)'
    BY <1>7
  <2>2. Clean(j)
    BY <1>1, <1>7, <1>9, <2>1 DEF Clean
  <2>3. Agree(j)
    BY <2>2 DEF ItemInv, ItemsAgree
  <2>4. CASE j # i
    <3>1. obj'[j] = obj[j]
      BY <2>4 DEF Starts
    <3> QED
      BY <1>1, <1>7, <1>8, <1>9, <2>3, <2>4, <3>1, AgreeSame
  <2>5. CASE j = i /\ ask = "insert"
    <3>1. On(i)' = {t} /\ Inserting(t)' /\ call'[t].ask = "insert"
      BY <1>4, <1>7, <1>8, <1>10, <2>5
    <3>2. doc'[i] = None
      BY <1>1, <2>5 DEF Starts, ItemInv, UnusedUntouched
    <3>3. ~ Removing(i)'
      BY <1>9, <3>1 DEF Removing
    <3> QED
      BY <1>9, <2>5, <3>1, <3>2, <3>3 DEF Agree
  <2>6. CASE j = i /\ ask = "load"
    <3>1. On(i)' = {t} /\ ~ Inserting(t)' /\ call'[t].ask = "load"
      BY <1>4, <1>7, <1>8, <1>10, <2>6
    <3>2. ~ Removing(i)'
      BY <1>9, <3>1 DEF Removing
    <3> QED
      BY <2>6, <3>1, <3>2 DEF Agree
  <2>7. CASE j = i /\ ask \in {"update", "remove"}
    <3>1. On(i)' = On(i) \cup {t} /\ ~ Inserting(t)' /\ call'[t].ask # "load" /\ t \notin applied'
      BY <1>4, <1>7, <1>8, <1>9, <2>7
    <3>2. \A u \in On(i) : /\ Inserting(u)' <=> Inserting(u)
                           /\ call'[u].ask = call[u].ask
                           /\ u \in applied' <=> u \in applied
      BY <1>7, <1>8, <1>9
    <3>3. obj' = obj
      BY <2>7 DEF Starts
    <3>4. Removing(i)' <=> Removing(i)
      BY <3>1, <3>2 DEF Removing
    <3>5. \A u \in On(i)' : Inserting(u)' => (doc'[i] # None <=> u \in applied')
      BY <1>1, <2>3, <2>7, <3>1, <3>2 DEF Agree
    <3>6. (\A u \in On(i)' : ~ Inserting(u)' /\ call'[u].ask # "load") =>
             (\A u \in On(i) : ~ Inserting(u) /\ call[u].ask # "load")
      BY <3>1, <3>2
    <3> QED
      BY <1>1, <2>3, <2>7, <3>3, <3>4, <3>5, <3>6 DEF Agree
  <2> QED
    BY <1>5, <2>4, <2>5, <2>6, <2>7
<1> QED
  BY <1>11, <1>12, <1>13, <1>14, <1>15, <1>16, <1>17 DEF ItemInv

\* What a call that ends has made of its item.
Concludes(t, how) ==
    LET i == call[t].item IN
    /\ \A j \in Items \ {i} : obj'[j] = obj[j]
    /\ \/ how = "thrown" /\ obj' = obj
       \/ /\ how = "returned" /\ call[t].ask = "load"
          /\ replies # << >> /\ Head(replies).to = t
          /\ obj'[i].known <=> Head(replies).val # None
       \/ /\ how = "returned" /\ call[t].ask # "load" /\ t \in applied \cup mixed
          /\ \/ Inserting(t) /\ obj'[i].known
             \/ call[t].ask = "remove" /\ ~ obj'[i].known
             \/ /\ call[t].ask \in {"insert", "update"} /\ ~ Inserting(t)
                /\ obj'[i].known <=> obj[i].known

\* What a call that queries after its error check has made of its item.
Proceeds(t) ==
    LET i == call[t].item IN
    /\ \A j \in Items \ {i} : obj'[j] = obj[j]
    /\ t \in applied \cup mixed
    /\ \/ Inserting(t) /\ obj'[i].known
       \/ /\ call[t].ask \in {"insert", "update"} /\ ~ Inserting(t)
          /\ obj'[i].known <=> obj[i].known

\* What a receipt makes of the item.
LEMMA ReceiveConcludes ==
    ASSUME IInv, ItemInv, NEW t \in Threads, Receive(t)
    PROVE  /\ t \in Active /\ replies # << >>
           /\ \/ \E how : Ends(t, how, Tail(replies)) /\ Concludes(t, how)
              \/ \E at \in {"fetch", "empty"} : GoesOn(t, at) /\ Proceeds(t)
<1>0. PICK r, i : r = Head(replies) /\ i = call[t].item
  OBVIOUS
<1>1. t \in Waiting \ cut /\ replies # << >> /\ r.to = t
  BY <1>0 DEF Receive
<1>2. t \in Active
  BY <1>1 DEF Waiting, Active
<1>3. /\ replies \in Seq(Replies) /\ 1 \in 1 .. Len(replies) /\ r = replies[1]
  <2>1. replies \in Seq(Replies)
    BY DEF IInv, TypeOK
  <2> QED
    BY <1>0, <1>1, <2>1
<1>4. i \in Items /\ obj \in [Items -> [known : BOOLEAN, filled : BOOLEAN]]
      /\ call[t].ask \in Writes \cup {"load"}
  BY <1>0 DEF IInv, TypeOK, Calls
<1>5. CASE /\ call[t].at \in {"checking", "asking"}
           /\ Ends(t, "thrown", Tail(replies)) /\ obj' = obj
  <2>1. Concludes(t, "thrown")
    BY <1>5 DEF Concludes
  <2> QED
    BY <1>1, <1>2, <1>5, <2>1
<1>6. CASE /\ call[t].at = "checking" /\ ~ r.err
           /\ obj' = [obj EXCEPT ![i] = Checked(call[t].ask, @)]
           /\ \/ GoesOn(t, "fetch") /\ call[t].ask # "remove"
              \/ Ends(t, "returned", Tail(replies))
  <2>1. t \in applied \cup mixed
    BY <1>1, <1>3, <1>6 DEF IInv, CheckCovers
  <2>2. call[t].ask \in Writes
    BY <1>6 DEF IInv, CallShape
  <2>3. obj'[i] = Checked(call[t].ask, obj[i]) /\ \A j \in Items \ {i} : obj'[j] = obj[j]
    BY <1>4, <1>6
  <2>4. /\ call[t].ask = "insert" => obj'[i].known /\ Inserting(t)
        /\ call[t].ask = "update" => obj'[i] = obj[i] /\ ~ Inserting(t)
        /\ call[t].ask = "remove" => ~ obj'[i].known
    <3>1. obj[i] \in [known : BOOLEAN, filled : BOOLEAN]
      BY <1>4
    <3> QED
      BY <1>6, <2>3, <3>1 DEF Checked, Inserting
  <2>5. CASE call[t].ask = "remove"
    <3>1. Concludes(t, "returned")
      BY <1>0, <2>1, <2>3, <2>4, <2>5 DEF Concludes
    <3> QED
      BY <1>1, <1>2, <1>6, <2>5, <3>1
  <2>6. CASE call[t].ask \in {"insert", "update"}
    <3>1. Proceeds(t)
      BY <1>0, <2>1, <2>3, <2>4, <2>6 DEF Proceeds
    <3>2. Concludes(t, "returned")
      BY <2>6, <3>1 DEF Proceeds, Concludes
    <3> QED
      BY <1>1, <1>2, <1>6, <3>1, <3>2
  <2> QED
    BY <2>2, <2>5, <2>6 DEF Writes
<1>7. CASE /\ call[t].at = "fetching"
           /\ obj' = [obj EXCEPT ![i].filled = r.val # None,
                                 ![i].known = IF call[t].ask = "load" THEN r.val # None ELSE @]
           /\ IF r.val = None /\ call[t].ask # "load"
              THEN GoesOn(t, "empty")
              ELSE Ends(t, "returned", Tail(replies))
  <2>1. /\ \A j \in Items \ {i} : obj'[j] = obj[j]
        /\ obj'[i].known <=> IF call[t].ask = "load" THEN r.val # None ELSE obj[i].known
    <3>1. PICK f \in BOOLEAN : f = (r.val # None)
      OBVIOUS
    <3> DEFINE o == [obj EXCEPT ![i].filled = f]
    <3>2. /\ o \in [Items -> [known : BOOLEAN, filled : BOOLEAN]] /\ o[i].known = obj[i].known
          /\ \A j \in Items \ {i} : o[j] = obj[j]
      BY <1>4
    <3>3. obj' = [o EXCEPT ![i].known = IF call[t].ask = "load" THEN f ELSE o[i].known]
      BY <1>7, <3>1
    <3> HIDE DEF o
    <3>4. PICK g : g = IF call[t].ask = "load" THEN f ELSE o[i].known
      OBVIOUS
    <3>5. obj' = [o EXCEPT ![i].known = g]
      BY <3>3, <3>4
    <3>6. obj'[i].known = g /\ \A j \in Items \ {i} : obj'[j] = o[j]
      BY <1>4, <3>2, <3>5
    <3> QED
      BY <3>1, <3>2, <3>4, <3>6
  <2>2. ~ Inserting(t)
    BY <1>7 DEF Inserting
  <2>3. CASE call[t].ask = "load"
    <3>1. Concludes(t, "returned")
      BY <1>0, <1>1, <2>1, <2>3 DEF Concludes
    <3> QED
      BY <1>1, <1>2, <1>7, <2>3, <3>1
  <2>4. CASE call[t].ask # "load"
    <3>1. t \in applied \cup mixed
      BY <1>7, <2>4 DEF IInv, CheckedTookEffect
    <3>2. call[t].ask \in {"insert", "update"}
      BY <1>4, <1>7, <2>4 DEF ItemInv, Courses, Writes
    <3>3. Proceeds(t)
      BY <1>0, <2>1, <2>2, <2>4, <3>1, <3>2 DEF Proceeds
    <3>4. Concludes(t, "returned")
      BY <2>4, <3>3 DEF Proceeds, Concludes
    <3> QED
      BY <1>1, <1>2, <1>7, <2>4, <3>3, <3>4
  <2> QED
    BY <2>3, <2>4
<1> QED
  BY <1>0, <1>5, <1>6, <1>7 DEF Receive

\* A call goes on to its query.
LEMMA GoesOnItems ==
    ASSUME IInv, ItemInv, NEW t \in Active, replies # << >>, NEW at \in {"fetch", "empty"},
           GoesOn(t, at), Proceeds(t)
    PROVE  ItemInv'
<1>0. PICK i : i = call[t].item
  OBVIOUS
<1>1. /\ call' = [call EXCEPT ![t].at = at] /\ replies' = Tail(replies)
      /\ unused' = unused /\ doc' = doc /\ wire' = wire
      /\ applied' = applied /\ mixed' = mixed /\ doubtful' = doubtful
  BY DEF GoesOn, server, history
<1>2. /\ call \in [Threads -> Calls] /\ t \in Threads /\ i \in Items /\ Active \subseteq Threads
      /\ replies \in Seq(Replies)
  BY <1>0 DEF IInv, TypeOK, Calls, Active
<1>3. /\ call'[t].at = at /\ call'[t].ask = call[t].ask /\ call'[t].item = i
      /\ \A u \in Threads \ {t} : call'[u] = call[u]
  BY <1>0, <1>1, <1>2 DEF Calls
<1>4. /\ \A j \in Items \ {i} : obj'[j] = obj[j]
      /\ t \in applied \cup mixed /\ call[t].ask \in {"insert", "update"}
      /\ \/ Inserting(t) /\ obj'[i].known
         \/ ~ Inserting(t) /\ (obj'[i].known <=> obj[i].known)
  BY <1>0 DEF Proceeds, Inserting
<1>5. \A u \in Threads : /\ call'[u].item = call[u].item /\ call'[u].ask = call[u].ask
                         /\ call'[u].at = "idle" <=> call[u].at = "idle"
  BY <1>0, <1>3 DEF Active
<1>6. Active' = Active /\ (\A j : On(j)' = On(j)) /\ \A j : On(j) \subseteq Active
  BY <1>5, OnSame DEF On
<1>7. ~ Inserting(t)' /\ \A u \in Threads \ {t} : Inserting(u)' <=> Inserting(u)
  BY <1>3 DEF Inserting
<1>8. Courses'
  BY <1>1, <1>3, <1>4 DEF ItemInv, Courses
<1>9. MessagesFit'
  <2> SUFFICES ASSUME NEW c \in Connections, NEW k \in 1 .. Len(wire'[c])
               PROVE  MessageFits(wire[c][k])'
    BY DEF MessagesFit
  <2>1. PICK m : m = wire[c][k]
    OBVIOUS
  <2>2. MessageFits(m) /\ m.from \in Threads \cup {Nobody}
    BY <1>1, <2>1, MessageType DEF IInv, ItemInv, MessagesFit
  <2>3. MessageFits(m)'
    BY <1>1, <1>5, <2>2 DEF MessageFits
  <2> QED
    BY <1>1, <2>1, <2>3 DEF MessageFits
<1>10. t \in On(i) /\ i \notin unused
  <2>1. t \in On(i)
    BY <1>0 DEF On
  <2> QED
    BY <1>4, <2>1 DEF ItemInv, UnusedUntouched
<1>11. UnusedUntouched'
  <2> SUFFICES ASSUME NEW j \in unused
               PROVE  ~ obj'[j].known /\ doc'[j] = None /\ \A u \in On(j)' : call'[u].ask = "load"
    BY <1>1 DEF UnusedUntouched
  <2>1. ~ obj[j].known /\ doc[j] = None /\ (\A u \in On(j) : call[u].ask = "load") /\ j \in Items
    BY DEF ItemInv, UnusedUntouched, IInv, TypeOK
  <2> QED
    BY <1>1, <1>2, <1>4, <1>5, <1>6, <1>10, <2>1
<1>12. Alone'
  <2> SUFFICES ASSUME NEW u \in Active, call[u].ask = "load" \/ Inserting(u),
                      NEW w \in Active, call[w].item = call[u].item
               PROVE  w = u
    BY <1>2, <1>5, <1>6, <1>7 DEF Alone, On
  <2> QED
    BY DEF ItemInv, Alone, On
<1>13. InsertHasNoId'
  <2> SUFFICES ASSUME NEW u \in Active, Inserting(u)' PROVE ~ obj'[call'[u].item].known
    BY <1>6 DEF InsertHasNoId
  <2>1. u # t /\ Inserting(u) /\ call'[u] = call[u] /\ u \in Threads
    BY <1>2, <1>3, <1>7
  <2>2. ~ obj[call[u].item].known /\ call[u].item \in Items
    BY <1>2, <2>1 DEF ItemInv, InsertHasNoId, Calls
  <2>3. call[u].item # i
    BY <1>10, <2>1 DEF ItemInv, Alone
  <2> QED
    BY <1>4, <2>1, <2>2, <2>3
<1>14. LoadAnswers'
  <2> SUFFICES ASSUME NEW u \in Active, call[u].ask = "load",
                      call[u].item \in unused \/ call[u].item \notin doubtful,
                      NEW k \in 1 .. Len(replies'), replies'[k].to = u
               PROVE  replies'[k].val # None <=> doc[call[u].item] # None
    BY <1>1, <1>2, <1>5, <1>6 DEF LoadAnswers
  <2>1. k + 1 \in 1 .. Len(replies) /\ replies'[k] = replies[k + 1]
    BY <1>1, <1>2
  <2> QED
    BY <2>1 DEF ItemInv, LoadAnswers
<1>15. ItemsAgree'
  <2> SUFFICES ASSUME NEW j \in Items, Clean(j)' PROVE Agree(j)'
    BY DEF ItemsAgree
  <2>1. Clean(j)
    BY <1>1, <1>6 DEF Clean
  <2>2. Agree(j)
    BY <2>1 DEF ItemInv, ItemsAgree
  <2>3. CASE j # i
    <3>1. t \notin On(j)
      BY <1>0, <2>3 DEF On
    <3>2. \A u \in On(j) : Inserting(u)' <=> Inserting(u)
      BY <1>2, <1>6, <1>7, <3>1
    <3> QED
      BY <1>1, <1>2, <1>4, <1>5, <1>6, <2>2, <2>3, <3>2, AgreeSame
  <2>4. CASE j = i /\ ~ Inserting(t)
    <3>1. \A u \in On(j) : Inserting(u)' <=> Inserting(u)
      BY <1>2, <1>6, <1>7, <2>4
    <3>2. obj'[j].known <=> obj[j].known
      BY <1>4, <2>4
    <3> QED
      BY <1>1, <1>2, <1>5, <1>6, <2>2, <3>1, <3>2, AgreeSame
  <2>5. CASE j = i /\ Inserting(t)
    <3>1. On(i) = {t}
      BY <1>0, <1>10, <2>5 DEF ItemInv, Alone
    <3>2. t \in applied
      BY <1>4, <1>10, <2>1, <2>5 DEF Clean
    <3>3. doc'[i] # None /\ obj'[i].known
      BY <1>1, <1>4, <1>10, <2>2, <2>5, <3>2 DEF Agree
    <3>4. ~ Removing(i)'
      BY <1>3, <1>4, <1>6, <3>1 DEF Removing
    <3> QED
      BY <1>6, <1>7, <2>5, <3>1, <3>3, <3>4 DEF Agree
  <2> QED
    BY <2>3, <2>4, <2>5
<1> QED
  BY <1>8, <1>9, <1>11, <1>12, <1>13, <1>14, <1>15 DEF ItemInv

\* A call ends.
LEMMA EndItems ==
    ASSUME IInv, ItemInv, NEW t \in Active, NEW how, NEW rs, Left(rs), Ends(t, how, rs),
           Concludes(t, how)
    PROVE  ItemInv'
<1>0. PICK i : i = call[t].item
  OBVIOUS
<1>1. /\ call' = [call EXCEPT ![t].at = "idle"] /\ replies' = Unanswered(t, rs)
      /\ wire' = [c \in Connections |-> Disowned(t, wire[c])]
      /\ doubtful' = IF how = "thrown" \/ t \in mixed THEN doubtful \cup {i} ELSE doubtful
      /\ unused' = unused /\ doc' = doc /\ applied' = applied /\ mixed' = mixed
  BY <1>0 DEF Ends, server
<1>2. /\ call \in [Threads -> Calls] /\ t \in Threads /\ i \in Items /\ Active \subseteq Threads
      /\ replies \in Seq(Replies) /\ rs \in Seq(Replies)
  <2>1. call \in [Threads -> Calls] /\ t \in Threads /\ Active \subseteq Threads
        /\ replies \in Seq(Replies)
    BY DEF IInv, TypeOK, Active
  <2> QED
    BY <1>0, <2>1 DEF Left, Calls
<1>3. /\ call'[t].at = "idle" /\ call'[t].ask = call[t].ask /\ call'[t].item = i
      /\ \A u \in Threads \ {t} : call'[u] = call[u]
  BY <1>0, <1>1, <1>2 DEF Calls
<1>4. /\ \A j \in Items \ {i} : obj'[j] = obj[j]
      /\ \/ how = "thrown" /\ obj' = obj
         \/ /\ how = "returned" /\ call[t].ask = "load"
            /\ replies # << >> /\ Head(replies).to = t
            /\ obj'[i].known <=> Head(replies).val # None
         \/ /\ how = "returned" /\ call[t].ask # "load" /\ t \in applied \cup mixed
            /\ \/ Inserting(t) /\ obj'[i].known
               \/ call[t].ask = "remove" /\ ~ obj'[i].known
               \/ /\ call[t].ask \in {"insert", "update"} /\ ~ Inserting(t)
                  /\ obj'[i].known <=> obj[i].known
  BY <1>0 DEF Concludes
<1>5. Active' = Active \ {t} /\ (\A j : On(j) \subseteq Active) /\ t \in On(i)
      /\ \A u \in Active \ {t} : call'[u] = call[u] /\ (Inserting(u)' <=> Inserting(u))
  BY <1>0, <1>2, <1>3 DEF Active, On, Inserting
<1>6. (\A j : j # i => On(j)' = On(j)) /\ On(i)' = On(i) \ {t}
  BY <1>0, <1>5 DEF On
<1>7. Courses'
  BY <1>1, <1>3 DEF ItemInv, Courses
<1>8. MessagesFit'
  <2> SUFFICES ASSUME NEW c \in Connections, NEW k \in 1 .. Len(wire'[c])
               PROVE  MessageFits(wire[c][k])'
    BY DEF MessagesFit
  <2>1. PICK m, n : m = wire[c][k] /\ n = wire'[c][k]
    OBVIOUS
  <2>2. k \in 1 .. Len(wire[c]) /\ n.ask = m.ask /\ n.item = m.item
        /\ n.from = (IF m.from = t THEN Nobody ELSE m.from)
    BY <1>1, <2>1, DisownedType, MessageType DEF IInv
  <2>3. MessageFits(m) /\ m.from \in Threads \cup {Nobody}
    BY <2>1, <2>2, MessageType DEF IInv, ItemInv, MessagesFit
  <2>4. n.from # Nobody => n.from = m.from /\ call'[n.from] = call[n.from]
    BY <1>3, <2>2, <2>3
  <2>5. ASSUME n.ask \in Writes, n.from = Nobody PROVE n.item \in doubtful'
    <3>1. CASE m.from = Nobody
      BY <1>1, <2>2, <2>3, <2>5, <3>1 DEF MessageFits
    <3>2. CASE m.from = t
      <4>1. t # Nobody
        BY <1>2, DocumentsAssumption
      <4>2. t \notin applied /\ m.ask = call[t].ask /\ m.item = i
        BY <1>0, <2>1, <2>2, <2>5, <3>2, <4>1 DEF IInv, WriteIsCalls
      <4>3. how = "thrown" \/ t \in mixed
        BY <1>4, <2>2, <2>5, <4>2 DEF Writes
      <4> QED
        BY <1>1, <2>2, <4>2, <4>3
    <3> QED
      BY <2>2, <2>5, <3>1, <3>2
  <2>6. MessageFits(n)'
    BY <1>1, <2>2, <2>3, <2>4, <2>5 DEF MessageFits
  <2> QED
    BY <2>1, <2>6 DEF MessageFits
<1>9. call[t].ask = "load" /\ how = "returned" /\ (i \in unused \/ i \notin doubtful) =>
         (obj'[i].known <=> doc[i] # None)
  <2> SUFFICES ASSUME call[t].ask = "load", how = "returned", i \in unused \/ i \notin doubtful
               PROVE  obj'[i].known <=> doc[i] # None
    OBVIOUS
  <2>1. replies # << >> /\ Head(replies).to = t /\ (obj'[i].known <=> Head(replies).val # None)
    BY <1>4
  <2>2. 1 \in 1 .. Len(replies) /\ Head(replies) = replies[1]
    BY <1>2, <2>1
  <2>3. replies[1].val # None <=> doc[i] # None
    BY <1>0, <2>1, <2>2 DEF ItemInv, LoadAnswers
  <2> QED
    BY <2>1, <2>2, <2>3
<1>10. UnusedUntouched'
  <2> SUFFICES ASSUME NEW j \in unused
               PROVE  ~ obj'[j].known /\ doc'[j] = None /\ \A u \in On(j)' : call'[u].ask = "load"
    BY <1>1 DEF UnusedUntouched
  <2>1. ~ obj[j].known /\ doc[j] = None /\ (\A u \in On(j) : call[u].ask = "load") /\ j \in Items
    BY DEF ItemInv, UnusedUntouched, IInv, TypeOK
  <2>2. \A u \in On(j)' : call'[u].ask = "load"
    <3>1. \A u \in On(j)' : u \in On(j) /\ u # t
      BY <1>5, <1>6 DEF On
    <3> QED
      BY <1>5, <2>1, <3>1
  <2>3. ~ obj'[j].known
    <3>1. CASE j # i
      BY <1>4, <2>1, <3>1
    <3>2. CASE j = i
      <4>1. call[t].ask = "load"
        BY <1>5, <2>1, <3>2
      <4> QED
        BY <1>4, <1>9, <2>1, <3>2, <4>1
    <3> QED
      BY <3>1, <3>2
  <2> QED
    BY <1>1, <2>1, <2>2, <2>3
<1>11. Alone'
  <2> SUFFICES ASSUME NEW u \in Active \ {t}, call[u].ask = "load" \/ Inserting(u),
                      NEW w \in Active \ {t}, call[w].item = call[u].item
               PROVE  w = u
    BY <1>5 DEF Alone, On
  <2> QED
    BY DEF ItemInv, Alone, On
<1>12. InsertHasNoId'
  <2> SUFFICES ASSUME NEW u \in Active \ {t}, Inserting(u) PROVE ~ obj'[call[u].item].known
    BY <1>5 DEF InsertHasNoId
  <2>1. ~ obj[call[u].item].known /\ call[u].item \in Items
    BY <1>2 DEF ItemInv, InsertHasNoId, Calls
  <2>2. call[u].item # i
    BY <1>5 DEF ItemInv, Alone
  <2> QED
    BY <1>4, <2>1, <2>2
<1>13. doubtful \subseteq doubtful'
  BY <1>1
<1>14. LoadAnswers'
  <2> SUFFICES ASSUME NEW u \in Active \ {t}, call[u].ask = "load",
                      call[u].item \in unused \/ call[u].item \notin doubtful,
                      NEW k \in 1 .. Len(replies'), replies'[k].to = u
               PROVE  replies'[k].val # None <=> doc[call[u].item] # None
    BY <1>1, <1>5, <1>13 DEF LoadAnswers
  <2>1. /\ k \in 1 .. Len(rs)
        /\ replies'[k] = IF rs[k].to = t THEN [rs[k] EXCEPT !.to = Nobody] ELSE rs[k]
    BY <1>1, <1>2, UnansweredType DEF Unanswered
  <2>2. rs[k] \in Replies
    BY <1>2, <2>1
  <2>3. PICK l \in 1 .. Len(replies) : rs[k] = replies[l]
    BY <1>2, <2>1, LeftFrom
  <2>4. u # Nobody
    BY <1>2, DocumentsAssumption
  <2>5. replies[l].to = u /\ replies[l].val = replies'[k].val
    BY <2>1, <2>2, <2>3, <2>4 DEF Replies
  <2> QED
    BY <2>5 DEF ItemInv, LoadAnswers
<1>15. ItemsAgree'
  <2> SUFFICES ASSUME NEW j \in Items, Clean(j)' PROVE Agree(j)'
    BY DEF ItemsAgree
  <2>1. CASE j # i
    <3>1. On(j)' = On(j) /\ \A u \in On(j) : u \in Active \ {t}
      BY <1>0, <1>6, <2>1 DEF On
    <3>2. Clean(j)
      BY <1>1, <1>13, <3>1 DEF Clean
    <3>3. Agree(j)
      BY <3>2 DEF ItemInv, ItemsAgree
    <3>4. \A u \in On(j) : /\ Inserting(u)' <=> Inserting(u)
                           /\ call'[u].ask = call[u].ask
                           /\ u \in applied' <=> u \in applied
      BY <1>1, <1>5, <3>1
    <3>5. obj'[j] = obj[j] /\ doc' = doc
      BY <1>1, <1>4, <2>1
    <3> QED
      BY <3>1, <3>3, <3>4, <3>5, AgreeSame
  <2>2. CASE j = i
    <3>1. how # "thrown" /\ t \notin mixed /\ i \notin doubtful
      BY <1>1, <2>2 DEF Clean
    <3>2. Clean(i)
      BY <1>1, <1>6, <2>2, <3>1 DEF Clean
    <3>3. Agree(i)
      BY <1>2, <3>2 DEF ItemInv, ItemsAgree
    <3>4. \A u \in On(i)' : /\ u \in On(i) /\ u # t /\ (Inserting(u)' <=> Inserting(u))
                            /\ call'[u].ask = call[u].ask
                            /\ u \in applied' <=> u \in applied
      BY <1>1, <1>5, <1>6
    <3>5. CASE call[t].ask = "load"
      <4>1. On(i)' = {}
        BY <1>0, <1>5, <1>6, <3>5 DEF ItemInv, Alone
      <4>2. obj'[i].known <=> doc'[i] # None
        BY <1>1, <1>4, <1>9, <3>1, <3>5
      <4>3. ~ Removing(i)'
        BY <4>1 DEF Removing
      <4> QED
        BY <2>2, <4>1, <4>2, <4>3 DEF Agree
    <3>6. CASE Inserting(t) /\ obj'[i].known
      <4>1. On(i)' = {}
        BY <1>0, <1>5, <1>6, <3>6 DEF ItemInv, Alone
      <4>2. doc'[i] # None
        <5>1. t \in applied
          BY <1>4, <3>1, <3>6 DEF Inserting
        <5> QED
          BY <1>1, <1>5, <3>3, <3>6, <5>1 DEF Agree
      <4>3. ~ Removing(i)'
        BY <4>1 DEF Removing
      <4> QED
        BY <2>2, <3>6, <4>1, <4>2, <4>3 DEF Agree
    <3>7. CASE call[t].ask = "remove" /\ ~ obj'[i].known
      <4>1. t \in applied
        BY <1>4, <3>1, <3>7
      <4>2. Removing(i)
        BY <1>5, <3>7, <4>1 DEF Removing
      <4>3. doc'[i] = None
        BY <1>1, <3>3, <4>2 DEF Agree
      <4>4. \A u \in On(i)' : ~ Inserting(u)'
        BY <1>0, <1>5, <3>4 DEF ItemInv, Alone, On
      <4> QED
        BY <2>2, <3>7, <4>3, <4>4 DEF Agree
    <3>8. CASE /\ call[t].ask \in {"insert", "update"} /\ ~ Inserting(t)
               /\ obj'[i].known <=> obj[i].known
      <4>1. \A u \in On(i) : u = t \/ u \in On(i)'
        BY <1>6
      <4>2. Removing(i)' <=> Removing(i)
        BY <3>4, <3>8, <4>1 DEF Removing
      <4>3. \A u \in On(i)' : Inserting(u)' => (doc'[i] # None <=> u \in applied')
        BY <1>1, <3>3, <3>4 DEF Agree
      <4>4. (\A u \in On(i)' : ~ Inserting(u)' /\ call'[u].ask # "load") =>
               (\A u \in On(i) : ~ Inserting(u) /\ call[u].ask # "load")
        BY <3>4, <3>8, <4>1
      <4> QED
        BY <1>1, <2>2, <3>3, <3>8, <4>2, <4>3, <4>4 DEF Agree
    <3> QED
      BY <1>4, <3>1, <3>5, <3>6, <3>7, <3>8
  <2> QED
    BY <2>1, <2>2
<1> QED
  BY <1>7, <1>8, <1>10, <1>11, <1>12, <1>14, <1>15 DEF ItemInv

\* The message the server takes next.
LEMMA FirstMessage ==
    ASSUME IInv, ItemInv, NEW c \in Connections, wire[c] # << >>, NEW m, m = Head(wire[c])
    PROVE  /\ m \in Messages /\ m.from \in Threads \cup {Nobody} /\ MessageFits(m)
           /\ m.from # Nobody =>
                 m.from \in On(m.item) /\ call[m.from].at \notin {"idle", "begin"}
           /\ m.from # Nobody /\ m.ask \in Writes =>
                 m.from \notin applied /\ m.ask = call[m.from].ask
<1>1. wire[c] \in Seq(Messages)
  BY MessageType DEF IInv
<1>2. m = wire[c][1] /\ 1 \in 1 .. Len(wire[c])
  BY <1>1
<1>3. m \in Messages /\ m.from \in Threads \cup {Nobody} /\ MessageFits(m)
  BY <1>2, MessageType DEF IInv, ItemInv, MessagesFit
<1>4. m.from # Nobody => call[m.from].at \notin {"idle", "begin"}
  BY <1>2 DEF IInv, SenderActive
<1>5. m.from # Nobody => m.from \in On(m.item)
  BY <1>3, <1>4 DEF MessageFits, On, Active
<1>6. m.from # Nobody /\ m.ask \in Writes => m.from \notin applied /\ m.ask = call[m.from].ask
  BY <1>2 DEF IInv, WriteIsCalls
<1> QED
  BY <1>3, <1>4, <1>5, <1>6

\* A write takes effect.
LEMMA EffectItems ==
    ASSUME IInv, ItemInv, NEW c \in Connections, wire[c] # << >>, NEW m, m = Head(wire[c]),
           m.ask \in Writes, doc' = S!Effect(m, doc), applied' = applied \cup ({m.from} \cap Threads),
           call' = call, obj' = obj, unused' = unused, mixed' = mixed, doubtful' = doubtful,
           replies' = replies
    PROVE  UnusedUntouched' /\ LoadAnswers' /\ ItemsAgree'
<1>0. PICK i : i = m.item
  OBVIOUS
<1>1. /\ m.from \in Threads \cup {Nobody} /\ m.val \in Values /\ i \in Items
      /\ i \notin unused /\ (m.from = Nobody => i \in doubtful)
      /\ m.from # Nobody => /\ m.from \in On(i) /\ m.from \notin applied
                            /\ m.ask = call[m.from].ask
                            /\ call[m.from].at \notin {"idle", "begin"}
  BY <1>0, FirstMessage DEF MessageFits, Messages
<1>2. /\ m.ask = "insert" => doc'[i] # None
      /\ m.ask = "update" => (doc'[i] # None <=> doc[i] # None)
      /\ m.ask = "remove" => doc'[i] = None
      /\ \A j \in Items \ {i} : doc'[j] = doc[j]
  <2>1. doc \in [Items -> Values \cup {None}]
    BY DEF IInv, TypeOK
  <2> QED
    BY <1>0, <1>1, <2>1, DocumentsAssumption DEF S!Effect
<1>3. Active' = Active /\ \A j : On(j)' = On(j) /\ On(j) \subseteq Active
  BY DEF Active, On
<1>4. \A u \in Threads : Inserting(u)' <=> Inserting(u)
  BY DEF Inserting
<1>5. Active \subseteq Threads
  BY DEF Active
<1>6. UnusedUntouched'
  <2> SUFFICES ASSUME NEW j \in unused
               PROVE  ~ obj[j].known /\ doc'[j] = None /\ \A u \in On(j) : call[u].ask = "load"
    BY <1>3 DEF UnusedUntouched
  <2>1. j \in Items
    BY DEF IInv, TypeOK
  <2> QED
    BY <1>1, <1>2, <2>1 DEF ItemInv, UnusedUntouched
<1>7. LoadAnswers'
  <2> SUFFICES ASSUME NEW u \in Active, call[u].ask = "load",
                      call[u].item \in unused \/ call[u].item \notin doubtful,
                      NEW k \in 1 .. Len(replies), replies[k].to = u
               PROVE  replies[k].val # None <=> doc'[call[u].item] # None
    BY <1>3 DEF LoadAnswers
  <2>1. replies[k].val # None <=> doc[call[u].item] # None
    BY DEF ItemInv, LoadAnswers
  <2>2. call[u].item # i
    <3> SUFFICES ASSUME call[u].item = i PROVE FALSE
      OBVIOUS
    <3>1. m.from # Nobody
      BY <1>1
    <3>2. m.from = u
      BY <1>1, <3>1 DEF ItemInv, Alone
    <3> QED
      BY <1>1, <3>1, <3>2 DEF Writes
  <2>3. call[u].item \in Items
    BY <1>5 DEF IInv, TypeOK, Calls
  <2> QED
    BY <1>2, <2>1, <2>2, <2>3
<1>8. ItemsAgree'
  <2> SUFFICES ASSUME NEW j \in Items, Clean(j)' PROVE Agree(j)'
    BY DEF ItemsAgree
  <2>1. Clean(j)
    BY <1>3 DEF Clean
  <2>2. Agree(j)
    BY <2>1 DEF ItemInv, ItemsAgree
  <2>3. CASE j # i
    <3>1. \A u \in On(j) : u \in applied' <=> u \in applied
      <4>1. m.from \notin On(j)
        BY <1>1, <1>5, <2>3, DocumentsAssumption DEF On
      <4> QED
        BY <4>1
    <3> QED
      BY <1>2, <1>3, <1>4, <1>5, <2>2, <2>3, <3>1, AgreeSame
  <2>4. CASE j = i
    <3>1. PICK w : w = m.from
      OBVIOUS
    <3>2. /\ w \in On(i) /\ w \in Active /\ w \in Threads /\ w \notin applied /\ w \notin mixed
          /\ m.ask = call[w].ask /\ call[w].at \notin {"idle", "begin"}
      BY <1>1, <1>3, <1>5, <2>1, <2>4, <3>1 DEF Clean
    <3>3. applied' = applied \cup {w}
      BY <3>1, <3>2
    <3>4. CASE m.ask = "insert"
      <4>1. Inserting(w)
        <5>1. call[w].at \in {"idle", "begin", "said", "checking", "fetch", "fetching", "empty", "asking"}
          BY <3>2 DEF IInv, TypeOK, Calls
        <5>2. call[w].at \notin {"fetch", "fetching"}
          BY <3>2, <3>4 DEF IInv, CheckedTookEffect
        <5>3. call[w].at \notin {"empty", "asking"}
          BY <3>2 DEF ItemInv, Courses
        <5> QED
          BY <3>2, <3>4, <5>1, <5>2, <5>3 DEF Inserting
      <4>2. On(i) = {w}
        BY <3>2, <4>1 DEF ItemInv, Alone, On
      <4>3. ~ Removing(i)'
        BY <1>3, <3>2, <3>4, <4>2 DEF Removing
      <4> QED
        BY <1>2, <1>3, <1>4, <2>4, <3>2, <3>3, <3>4, <4>1, <4>2, <4>3 DEF Agree
    <3>5. CASE m.ask # "insert"
      <4>1. \A u \in On(i) : ~ Inserting(u)
        <5> SUFFICES ASSUME NEW u \in On(i), Inserting(u) PROVE FALSE
          OBVIOUS
        <5>1. w = u
          BY <3>2 DEF ItemInv, Alone, On
        <5> QED
          BY <3>2, <3>5, <5>1 DEF Inserting
      <4>2. \A u \in On(i)' : ~ Inserting(u)'
        BY <1>3, <1>4, <1>5, <4>1
      <4>3. CASE m.ask = "update"
        <5>1. Removing(i)' <=> Removing(i)
          BY <1>3, <3>2, <3>3, <4>3 DEF Removing
        <5> QED
          BY <1>2, <1>3, <2>2, <2>4, <4>1, <4>2, <4>3, <5>1 DEF Agree
      <4>4. CASE m.ask = "remove"
        <5>1. Removing(i)'
          BY <1>3, <3>2, <3>3, <4>4 DEF Removing
        <5> QED
          BY <1>2, <2>4, <4>2, <4>4, <5>1 DEF Agree
      <4> QED
        BY <3>5, <4>3, <4>4 DEF Writes
    <3> QED
      BY <3>4, <3>5
  <2> QED
    BY <2>3, <2>4
<1> QED
  BY <1>6, <1>7, <1>8

\* The server takes a message.
LEMMA ProcessItems ==
    ASSUME IInv, ItemInv, NEW c \in Connections, Process(c)
    PROVE  ItemInv'
<1>0. PICK m : m = Head(wire[c])
  OBVIOUS
<1>1. /\ wire[c] # << >> /\ call' = call /\ obj' = obj /\ unused' = unused /\ mixed' = mixed
      /\ doubtful' = doubtful
  BY DEF Process, item
<1>2. applied \subseteq applied'
  BY DEF Process
<1>3. Courses'
  BY <1>1, <1>2 DEF ItemInv, Courses
<1>4. MessagesFit'
  <2> SUFFICES ASSUME NEW x \in Connections, NEW k \in 1 .. Len(wire'[x])
               PROVE  MessageFits(wire[x][k])'
    BY DEF MessagesFit
  <2>1. PICK l \in 1 .. Len(wire[x]) : wire'[x][k] = wire[x][l]
    BY WiresShrink
  <2>2. MessageFits(wire[x][l])
    BY DEF ItemInv, MessagesFit
  <2> QED
    BY <1>1, <2>1, <2>2 DEF MessageFits
<1>5. Alone' /\ InsertHasNoId'
  BY <1>1 DEF ItemInv, Alone, InsertHasNoId, Active, On, Inserting
<1>6. CASE /\ m.ask \in Writes /\ doc' = S!Effect(m, doc) /\ replies' = replies
           /\ applied' = applied \cup ({m.from} \cap Threads)
  BY <1>0, <1>1, <1>3, <1>4, <1>5, <1>6, EffectItems DEF ItemInv
<1>7. CASE doc' = doc /\ applied' = applied
  <2>1. UnusedUntouched' /\ ItemsAgree'
    <3>1. \A u \in Threads : Inserting(u)' <=> Inserting(u)
      BY <1>1 DEF Inserting
    <3> QED
      BY <1>1, <1>7, <3>1, ItemsSame DEF ItemInv
  <2>2. LoadAnswers'
    <3> SUFFICES ASSUME NEW u \in Active, call[u].ask = "load",
                        call[u].item \in unused \/ call[u].item \notin doubtful,
                        NEW k \in 1 .. Len(replies'), replies'[k].to = u
                 PROVE  replies'[k].val # None <=> doc[call[u].item] # None
      BY <1>1, <1>7 DEF LoadAnswers, Active
    <3>1. \A l \in 1 .. Len(replies) :
             replies[l].to = u => (replies[l].val # None <=> doc[call[u].item] # None)
      BY DEF ItemInv, LoadAnswers
    <3>2. \/ replies' = replies
          \/ /\ m.ask = "check"
             /\ replies' = Append(replies, [to |-> m.from, err |-> err[c], val |-> None])
          \/ /\ m.ask = "fetch"
             /\ replies' = Append(replies, [to |-> m.from, err |-> FALSE, val |-> doc[m.item]])
      BY <1>0 DEF Process
    <3>3. replies \in Seq(Replies)
      BY DEF IInv, TypeOK
    <3>4. u # Nobody /\ u \in Threads
      BY DocumentsAssumption DEF Active
    <3>5. m.from = u => m.item = call[u].item /\ m.ask = "fetch"
      BY <1>0, <1>1, <3>4, FirstMessage DEF MessageFits
    <3>6. ASSUME NEW r, replies' = Append(replies, r), r.to = u => (r.val # None <=> doc[call[u].item] # None)
          PROVE  replies'[k].val # None <=> doc[call[u].item] # None
      <4>1. /\ \A l \in 1 .. Len(replies) : replies'[l] = replies[l]
            /\ replies'[Len(replies) + 1] = r
            /\ k \in 1 .. Len(replies) \/ k = Len(replies) + 1
        BY <3>3, <3>6
      <4> QED
        BY <3>1, <3>6, <4>1
    <3>7. CASE replies' = replies
      BY <3>1, <3>7
    <3>8. CASE m.ask = "check" /\ replies' = Append(replies, [to |-> m.from, err |-> err[c], val |-> None])
      BY <3>5, <3>6, <3>8
    <3>9. CASE m.ask = "fetch" /\ replies' = Append(replies, [to |-> m.from, err |-> FALSE, val |-> doc[m.item]])
      BY <3>5, <3>6, <3>9
    <3> QED
      BY <3>2, <3>7, <3>8, <3>9
  <2> QED
    BY <1>3, <1>4, <1>5, <2>1, <2>2 DEF ItemInv
<1> QED
  BY <1>0, <1>6, <1>7 DEF Process

\* Every step keeps it.
LEMMA ItemStep == Inv /\ ItemInv /\ [Next]_vars => ItemInv'
<1> SUFFICES ASSUME Inv, ItemInv, [Next]_vars PROVE ItemInv'
  OBVIOUS
<1>0. IInv /\ TypeOK
  BY DEF Inv, IInv
<1>1. ASSUME NEW t \in Threads, NEW i \in Items,
             \/ \E v \in Values : Create(t, i, v) \/ Update(t, i, v)
             \/ Destroy(t, i) \/ Load(t, i)
      PROVE  ItemInv'
  BY <1>0, <1>1, CallStarts, BeginItems
<1>2. ASSUME NEW t \in Threads, Say(t) \/ Reconnect(t) PROVE ItemInv'
  BY <1>0, <1>2, SayIsSend, ReconnectIsSend, SendItems
<1>3. ASSUME NEW t \in Threads, SayThrows(t) \/ ReceiveOther(t) \/ ReceiveFails(t)
      PROVE  ItemInv'
  <2>1. t \in Active /\ obj' = obj
    BY <1>0, <1>3, ThrowCases
  <2>2. Concludes(t, "thrown")
    BY <2>1 DEF Concludes
  <2>3. \E rs : Left(rs) /\ Ends(t, "thrown", rs)
    BY <1>3 DEF SayThrows, ReceiveOther, ReceiveFails, Left
  <2> QED
    BY <1>0, <2>1, <2>2, <2>3, EndItems
<1>4. ASSUME NEW t \in Threads, Receive(t) PROVE ItemInv'
  <2>1. t \in Active /\ replies # << >> /\ Left(Tail(replies))
    BY <1>0, <1>4, ReceiveConcludes DEF Left
  <2>2. CASE \E how : Ends(t, how, Tail(replies)) /\ Concludes(t, how)
    BY <1>0, <2>1, <2>2, EndItems
  <2>3. CASE \E at \in {"fetch", "empty"} : GoesOn(t, at) /\ Proceeds(t)
    BY <1>0, <2>1, <2>3, GoesOnItems
  <2> QED
    BY <1>0, <1>4, <2>2, <2>3, ReceiveConcludes
<1>5. ASSUME NEW c \in Connections, Process(c) PROVE ItemInv'
  BY <1>0, <1>5, ProcessItems
<1>6. ASSUME NEW c \in Connections, Lost(c) PROVE ItemInv'
  <2>1. /\ call' = call /\ doc' = doc /\ obj' = obj /\ unused' = unused /\ applied' = applied
        /\ mixed' = mixed /\ doubtful' = doubtful /\ replies' = replies
    BY <1>6 DEF Lost, item, server, history
  <2> QED
    BY <1>0, <1>6, <2>1, WiresShrink, QuietItems
<1>7. CASE Break \/ UNCHANGED vars
  <2>1. /\ call' = call /\ doc' = doc /\ obj' = obj /\ unused' = unused /\ applied' = applied
        /\ mixed' = mixed /\ doubtful' = doubtful /\ replies' = replies /\ wire' = wire
    BY <1>7 DEF Break, vars, item, server, history
  <2> QED
    BY <1>0, <2>1, QuietItems
<1> QED
  BY <1>1, <1>2, <1>3, <1>4, <1>5, <1>6, <1>7 DEF Next

\* It holds initially: items with a document were loaded, nobody is at work.
LEMMA InitItems == Init => ItemInv
<1> SUFFICES ASSUME Init PROVE ItemInv
  OBVIOUS
<1>1. Active = {} /\ \A i : On(i) = {}
  BY DEF Init, Active, On
<1>2. \A t \in Threads : call[t].at = "idle"
  BY DEF Init
<1>3. \A c \in Connections : Len(wire[c]) = 0
  BY DEF Init
<1>4. Courses /\ MessagesFit /\ Alone /\ InsertHasNoId /\ LoadAnswers
  BY <1>1, <1>2, <1>3 DEF Courses, MessagesFit, Alone, InsertHasNoId, LoadAnswers
<1>5. \A i \in Items : obj[i].known <=> doc[i] # None
  <2> SUFFICES ASSUME NEW i \in Items PROVE obj[i].known <=> doc[i] # None
    OBVIOUS
  <2>1. PICK b \in BOOLEAN : b = (doc[i] # None)
    OBVIOUS
  <2>2. obj[i] = [known |-> b, filled |-> b]
    BY <2>1 DEF Init
  <2>3. obj[i].known = b
    BY <2>2
  <2> QED
    BY <2>1, <2>3, Zenon
<1>6. UnusedUntouched
  BY <1>1, <1>5 DEF Init, UnusedUntouched
<1>7. ItemsAgree
  BY <1>1, <1>5 DEF ItemsAgree, Agree, Removing
<1> QED
  BY <1>4, <1>6, <1>7 DEF ItemInv

\* As long as the calls on an item return normally and nobody comes between a
\* write and its error check, the item at rest has an object id exactly if there
\* is a document, whatever other threads, items and failures there are.
THEOREM ItemsMatch == Spec => []ItemMatchesDocument
<1>1. ItemInv => ItemMatchesDocument
  <2> SUFFICES ASSUME ItemInv, NEW i \in Items \ doubtful, \A t \in Active : call[t].item # i
               PROVE  obj[i].known <=> doc[i] # None
    BY DEF ItemMatchesDocument
  <2>1. On(i) = {}
    BY DEF On
  <2>2. Agree(i) /\ ~ Removing(i)
    BY <2>1 DEF ItemInv, ItemsAgree, Clean, Removing
  <2> QED
    BY <2>1, <2>2 DEF Agree
<1> QED
  BY <1>1, InitItems, ItemStep, Invariance, PTL DEF Spec

=============================================================================
