----------------------------- MODULE Documents ------------------------------
(***************************************************************************)
(* SaveableItem over the one database connection of the process.           *)
(*                                                                         *)
(* The main thread and the threads of the timer queue call Create, Update, *)
(* Destroy and the loading constructors on items, all through GetDB().     *)
(* Writes are sent without an answer; getLastError, sent after them, asks  *)
(* how the last write of the CONNECTION went.  The client has no lock: a   *)
(* thread can be stopped between any two messages, and waits for whatever  *)
(* reply comes next.  A failed connection is replaced at the next message. *)
(*                                                                         *)
(* External: the server (takes the messages of a connection in order, each *)
(* write succeeds or fails), the network (a connection may break; what was *)
(* sent on it is still processed, perhaps late, or lost).  Two threads in  *)
(* one recv of the socket at the same byte, and the port freed under a     *)
(* waiting thread, are modelled by their likely outcome: a whole reply, a  *)
(* failed recv.                                                            *)
(***************************************************************************)
EXTENDS Integers, Sequences, FiniteSets

CONSTANTS
    Threads,        \* the main thread and pool threads
    Items,          \* items; an item has one object id
    Values,         \* contents of a document
    None,           \* no document
    Nobody,         \* sender of the messages of a call that has ended
    MaxConnections, \* bound on the connections made
    MaxCalls        \* bound on the calls begun

ASSUME DocumentsAssumption ==
    /\ None \notin Values
    /\ Nobody \notin Threads /\ IsFiniteSet(Threads)
    /\ MaxConnections \in Nat \ {0}
    /\ MaxCalls \in Nat

VARIABLES
    doc,       \* the collection
    obj,       \* of each item: `_uniqueid` is set, `_rawdata` is not empty
    unused,    \* object ids no insert was sent for
    calls,     \* number of calls begun
    call,      \* what each thread is doing
    conn,      \* the connection in use
    up,        \* its socket is alive
    failed,    \* `_failed`
    wire,      \* messages sent and not processed, by connection
    err,       \* the server's last error of each connection
    replies,   \* replies on the way, on the connection in use
    cut,       \* threads waiting on a connection that was replaced
    result,    \* history: how each thread's last call ended
    applied,   \* history: threads whose write took effect
    mixed,     \* history: threads whose error check may be about something else
    overlap,   \* history: threads whose call ran while another did
    doubtful   \* history: items a call on which threw or was mixed

item == <<obj, unused>>
client == <<conn, up, failed>>
server == <<doc, err>>
history == <<result, applied, mixed, overlap, doubtful>>
vars == <<calls, item, client, server, call, wire, replies, cut, history>>

Connections == 1 .. MaxConnections
Writes == {"insert", "update", "remove"}

\* at: between which messages the thread is.
Calls ==
    [at : {"idle", "begin", "said", "checking", "fetch", "fetching", "empty", "asking"},
     ask : Writes \cup {"load"}, item : Items, val : Values]

Messages ==
    [from : Threads \cup {Nobody}, ask : Writes \cup {"check", "fetch"},
     item : Items, val : Values]

Replies == [to : Threads \cup {Nobody}, err : BOOLEAN, val : Values \cup {None}]

Active == {t \in Threads : call[t].at # "idle"}
Waiting == {t \in Threads : call[t].at \in {"checking", "fetching", "asking"}}

\* The abstract store: the calls, and the writes of ended calls still on a wire.
Op == [t \in Threads |-> [ask |-> call[t].ask, item |-> call[t].item, val |-> call[t].val]]

Sends(c) == {wire[c][k] : k \in 1 .. Len(wire[c])}

Stray ==
    {[ask |-> m.ask, item |-> m.item, val |-> m.val] :
        m \in {m \in UNION {Sends(c) : c \in Connections} :
                  m.from = Nobody /\ m.ask \in Writes}}

S == INSTANCE Store WITH active <- Active, op <- Op, stray <- Stray

\* The first query of OnGameModeInit has connected; items with a document were
\* loaded.
Init ==
    /\ doc \in [Items -> Values \cup {None}]
    /\ obj = [i \in Items |-> [known |-> doc[i] # None, filled |-> doc[i] # None]]
    /\ unused = {i \in Items : doc[i] = None}
    /\ calls = 0
    /\ \E i \in Items, v \in Values :
          call = [t \in Threads |-> [at |-> "idle", ask |-> "load", item |-> i, val |-> v]]
    /\ conn = 1 /\ up = TRUE /\ failed = FALSE
    /\ wire = [c \in Connections |-> << >>]
    /\ err = [c \in Connections |-> FALSE]
    /\ replies = << >> /\ cut = {}
    /\ result = [t \in Threads |-> "none"]
    /\ applied = {} /\ mixed = {} /\ overlap = {} /\ doubtful = {}

(***************************************************************************)
(* The calls of SaveableItem, up to their first message.                   *)
(***************************************************************************)

Begin(t, at, ask, i, v) ==
    /\ t \notin Active
    /\ calls < MaxCalls
    /\ calls' = calls + 1
    /\ \A u \in Active : call[u].item = i => call[u].ask # "load" /\ ask # "load"
    /\ call' = [call EXCEPT ![t] = [at |-> at, ask |-> ask, item |-> i, val |-> v]]
    /\ result' = [result EXCEPT ![t] = "none"]
    /\ applied' = applied \ {t}
    /\ mixed' = mixed \ {t}
    /\ overlap' = IF Active = {} THEN overlap \ {t} ELSE overlap \cup Active \cup {t}
    /\ UNCHANGED <<client, server, wire, replies, cut, doubtful>>

\* The data carries a new object id.
Create(t, i, v) ==
    /\ i \in unused
    /\ ~ obj[i].filled
    /\ Begin(t, "begin", "insert", i, v)
    /\ unused' = unused \ {i}
    /\ UNCHANGED obj

Update(t, i, v) ==
    /\ obj[i].known
    /\ Begin(t, "begin", "update", i, v)
    /\ UNCHANGED item

Destroy(t, i) ==
    /\ obj[i].known
    /\ Begin(t, "begin", "remove", i, call[t].val)
    /\ UNCHANGED item

\* The constructor that queries: a new object, which nobody else has yet.
Load(t, i) ==
    /\ Begin(t, "fetch", "load", i, call[t].val)
    /\ obj' = [obj EXCEPT ![i] = [known |-> FALSE, filled |-> FALSE]]
    /\ UNCHANGED unused

(***************************************************************************)
(* The ends of a call.  What it has sent belongs to nobody from then on.   *)
(***************************************************************************)

Disowned(t, s) ==
    [k \in 1 .. Len(s) |-> IF s[k].from = t THEN [s[k] EXCEPT !.from = Nobody] ELSE s[k]]

Unanswered(t, s) ==
    [k \in 1 .. Len(s) |-> IF s[k].to = t THEN [s[k] EXCEPT !.to = Nobody] ELSE s[k]]

\* rs: the replies left.
Ends(t, how, rs) ==
    /\ call' = [call EXCEPT ![t].at = "idle"]
    /\ wire' = [c \in Connections |-> Disowned(t, wire[c])]
    /\ replies' = Unanswered(t, rs)
    /\ cut' = cut \ {t}
    /\ result' = [result EXCEPT ![t] = how]
    /\ doubtful' = IF how = "thrown" \/ t \in mixed
                   THEN doubtful \cup {call[t].item} ELSE doubtful
    /\ UNCHANGED <<calls, unused, conn, up, server, applied, mixed, overlap>>

(***************************************************************************)
(* Sending: DBClientConnection::say and the first half of call.            *)
(***************************************************************************)

\* Mutant: the query goes out under the name of the call.
Sent_NoQuery(t) ==
    [from |-> t, item |-> call[t].item, val |-> call[t].val,
     ask |-> IF call[t].at \in {"begin", "fetch"} THEN call[t].ask ELSE "check"]

Sent(t) ==
    [from |-> t, item |-> call[t].item, val |-> call[t].val,
     ask |-> CASE call[t].at = "begin" -> call[t].ask
               [] call[t].at = "fetch" -> "fetch"
               [] OTHER -> "check"]

After(at) ==
    CASE at = "begin" -> "said"
      [] at = "said" -> "checking"
      [] at = "fetch" -> "fetching"
      [] OTHER -> "asking"

Sending == {"begin", "said", "fetch", "empty"}

\* Mutant: Create, Update and Destroy do not ask for the error.
Say_Unchecked(t) ==
    /\ call[t].at = "begin"
    /\ ~ failed /\ up
    /\ wire' = [wire EXCEPT ![conn] = Append(@, Sent(t))]
    /\ call' = [call EXCEPT ![t].at = "idle"]
    /\ result' = [result EXCEPT ![t] = "returned"]
    /\ obj' = [obj EXCEPT ![call[t].item].known = call[t].ask # "remove"]
    /\ UNCHANGED <<calls, unused, client, server, replies, cut, applied, mixed, overlap, doubtful>>

\* The message goes out, on a socket that may be dead by now.
Say(t) ==
    /\ call[t].at \in Sending
    /\ ~ failed
    /\ wire' = [wire EXCEPT ![conn] = IF up THEN Append(@, Sent(t)) ELSE @]
    /\ call' = [call EXCEPT ![t].at = After(@)]
    /\ mixed' = mixed \cup {u \in Threads \ {t} : call[u].at = "said" /\ Sent(t).ask # "check"}
    /\ UNCHANGED <<calls, item, client, server, replies, cut, result, applied, overlap, doubtful>>

\* _checkConnection makes a new port first.
Reconnect(t) ==
    /\ call[t].at \in Sending
    /\ failed
    /\ conn < MaxConnections
    /\ conn' = conn + 1 /\ up' = TRUE /\ failed' = FALSE
    /\ wire' = [wire EXCEPT ![conn + 1] = Append(@, Sent(t))]
    /\ replies' = << >>
    /\ call' = [call EXCEPT ![t].at = After(@)]
    /\ cut' = cut \cup Waiting
    /\ mixed' = mixed \cup {u \in Threads : call[u].at = "said"}
    /\ UNCHANGED <<calls, item, server, result, applied, overlap, doubtful>>

\* SocketException: the socket is dead; or the last attempt to reconnect is
\* less than two seconds old, or this one fails.
SayThrows(t) ==
    /\ call[t].at \in Sending
    /\ failed \/ ~ up
    /\ failed' = TRUE
    /\ Ends(t, "thrown", replies)
    /\ UNCHANGED obj

(***************************************************************************)
(* Receiving: the second half of call.                                     *)
(***************************************************************************)

GoesOn(t, at) ==
    /\ call' = [call EXCEPT ![t].at = at]
    /\ replies' = Tail(replies)
    /\ UNCHANGED <<calls, unused, conn, up, server, wire, cut, history>>

\* Mutant: Destroy leaves the object id set.
Checked_KeepsId(ask, o) == IF ask = "insert" THEN [o EXCEPT !.known = TRUE] ELSE o

\* The item once the error check of `ask` was clean.
Checked(ask, o) ==
    CASE ask = "insert" -> [o EXCEPT !.known = TRUE]
      [] ask = "remove" -> [known |-> FALSE, filled |-> FALSE]
      [] OTHER -> o

\* The reply has the id of the request.  Whether the caller asked for a Refetch
\* matters only here.
Receive(t) ==
    LET r == Head(replies)
        i == call[t].item
    IN  /\ t \in Waiting \ cut
        /\ replies # << >> /\ r.to = t
        /\ \/ /\ call[t].at = "checking" /\ r.err
              /\ Ends(t, "thrown", Tail(replies))
              /\ UNCHANGED obj
           \/ /\ call[t].at = "checking" /\ ~ r.err
              /\ obj' = [obj EXCEPT ![i] = Checked(call[t].ask, @)]
              /\ \/ GoesOn(t, "fetch") /\ call[t].ask # "remove"
                 \/ Ends(t, "returned", Tail(replies))
           \/ /\ call[t].at = "fetching"
              /\ obj' = [obj EXCEPT ![i].filled = r.val # None,
                                    ![i].known = IF call[t].ask = "load" THEN r.val # None ELSE @]
              /\ IF r.val = None /\ call[t].ask # "load"
                 THEN GoesOn(t, "empty")
                 ELSE Ends(t, "returned", Tail(replies))
           \/ /\ call[t].at = "asking"
              /\ Ends(t, "thrown", Tail(replies))
              /\ UNCHANGED obj
        /\ UNCHANGED failed

\* Mutant: the loop goes on to the next reply.
ReceiveOther_Skips(t) ==
    /\ t \in Waiting \ cut
    /\ replies # << >> /\ Head(replies).to # t
    /\ replies' = Tail(replies)
    /\ UNCHANGED <<calls, item, client, server, call, wire, cut, history>>

\* "wrong id": the reply is dropped and assert throws.
ReceiveOther(t) ==
    /\ t \in Waiting \ cut
    /\ replies # << >> /\ Head(replies).to # t
    /\ Ends(t, "thrown", Tail(replies))
    /\ UNCHANGED <<obj, failed>>

\* Mutant: the write is sent again.
ReceiveFails_Retries(t) ==
    /\ t \in Waiting
    /\ t \in cut \/ ~ up
    /\ failed' = TRUE
    /\ call' = [call EXCEPT ![t].at = IF @ = "checking" THEN "begin" ELSE "fetch"]
    /\ cut' = cut \ {t}
    /\ UNCHANGED <<calls, item, conn, up, server, wire, replies, history>>

\* recv returns false: the socket is dead, or another thread has replaced the
\* connection meanwhile.  It is the connection in use that is marked failed.
ReceiveFails(t) ==
    /\ t \in Waiting
    /\ t \in cut \/ ~ up
    /\ failed' = TRUE
    /\ Ends(t, "thrown", replies)
    /\ UNCHANGED obj

(***************************************************************************)
(* Server and network.                                                     *)
(***************************************************************************)

\* getLastError does not count as an operation of its own.
Process(c) ==
    LET m == Head(wire[c])
        answered == c = conn /\ up
    IN  /\ wire[c] # << >>
        /\ wire' = [wire EXCEPT ![c] = Tail(@)]
        /\ \/ /\ m.ask \in Writes
              /\ doc' = S!Effect(m, doc)
              /\ err' = [err EXCEPT ![c] = FALSE]
              /\ applied' = applied \cup ({m.from} \cap Threads)
              /\ UNCHANGED replies
           \/ /\ m.ask \in Writes
              /\ err' = [err EXCEPT ![c] = TRUE]
              /\ UNCHANGED <<doc, applied, replies>>
           \/ /\ m.ask = "check"
              /\ replies' = IF answered
                            THEN Append(replies, [to |-> m.from, err |-> err[c], val |-> None])
                            ELSE replies
              /\ UNCHANGED <<doc, err, applied>>
           \/ /\ m.ask = "fetch"
              /\ replies' = IF answered
                            THEN Append(replies, [to |-> m.from, err |-> FALSE, val |-> doc[m.item]])
                            ELSE replies
              /\ err' = [err EXCEPT ![c] = FALSE]
              /\ UNCHANGED <<doc, applied>>
        /\ UNCHANGED <<calls, item, client, call, cut, result, mixed, overlap, doubtful>>

Break ==
    /\ up
    /\ up' = FALSE
    /\ UNCHANGED <<calls, item, conn, failed, server, call, wire, replies, cut, history>>

Lost(c) ==
    /\ c # conn \/ ~ up
    /\ wire[c] # << >>
    /\ wire' = [wire EXCEPT ![c] = << >>]
    /\ UNCHANGED <<calls, item, client, server, call, replies, cut, history>>

Next ==
    \/ \E t \in Threads, i \in Items :
          \/ \E v \in Values : Create(t, i, v) \/ Update(t, i, v)
          \/ Destroy(t, i) \/ Load(t, i)
    \/ \E t \in Threads :
          \/ Say(t) \/ Reconnect(t) \/ SayThrows(t)
          \/ Receive(t) \/ ReceiveOther(t) \/ ReceiveFails(t)
    \/ \E c \in Connections : Process(c) \/ Lost(c)
    \/ Break

Spec == Init /\ [][Next]_vars

(***************************************************************************)
(* Properties.                                                             *)
(***************************************************************************)

TypeOK ==
    /\ doc \in [Items -> Values \cup {None}]
    /\ obj \in [Items -> [known : BOOLEAN, filled : BOOLEAN]]
    /\ unused \in SUBSET Items
    /\ calls \in 0 .. MaxCalls
    /\ call \in [Threads -> Calls]
    /\ conn \in Connections
    /\ up \in BOOLEAN /\ failed \in BOOLEAN
    /\ wire \in [Connections -> Seq(Messages)]
    /\ err \in [Connections -> BOOLEAN]
    /\ replies \in Seq(Replies)
    /\ cut \in SUBSET Threads
    /\ result \in [Threads -> {"none", "returned", "thrown"}]
    /\ applied \in SUBSET Threads /\ mixed \in SUBSET Threads
    /\ overlap \in SUBSET Threads /\ doubtful \in SUBSET Items

\* A Create, Update or Destroy that returned normally took effect, unless
\* another thread wrote, queried or made the connection anew between its write
\* and its getLastError.
NormalReturnTookEffect ==
    \A t \in Threads :
        result[t] = "returned" /\ call[t].ask # "load" => t \in applied \cup mixed

\* On a live connection there are as many replies, come or to come, as threads
\* waiting: none waits for ever, and none is left over for the next call.
RepliesMatchWaiters ==
    up => Cardinality(Waiting \ cut)
            = Len(replies) + Cardinality({k \in 1 .. Len(wire[conn]) :
                                             wire[conn][k].ask \notin Writes})

\* While every call on an item ended normally and unmixed, the item has an
\* object id exactly if there is a document.
ItemMatchesDocument ==
    \A i \in Items \ doubtful :
        (\A t \in Active : call[t].item # i) => (obj[i].known <=> doc[i] # None)

\* SaveableItem over the shared connection does what Store promises.
ImplementsStore == S!Spec

=============================================================================
