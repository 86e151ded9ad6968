------------------------------- MODULE Store --------------------------------
(***************************************************************************)
(* What SaveableItem promises its callers, without connection or messages: *)
(* the documents, and calls that write or read them.  A write takes effect *)
(* at most once and in one step.  A call that returns normally has taken   *)
(* effect, unless another call was running at some time during it; a call  *)
(* that throws may have taken effect, may do so later, or never.           *)
(***************************************************************************)
CONSTANTS
    Threads,  \* callers
    Items,    \* documents, by object id
    Values,   \* contents of a document
    None      \* no document

VARIABLES
    doc,      \* the documents
    active,   \* threads inside a call
    op,       \* the call a thread is in, or was in last
    applied,  \* threads whose call has taken effect
    overlap,  \* threads whose call ran while another did
    stray     \* writes of ended calls that may still take effect

vars == <<doc, active, op, applied, overlap, stray>>

Ops == [ask : {"insert", "update", "remove", "load"}, item : Items, val : Values]

\* An update that matches no document changes nothing and is no error.
Effect(w, d) ==
    [d EXCEPT ![w.item] =
        CASE w.ask = "insert" -> w.val
          [] w.ask = "update" -> IF @ = None THEN None ELSE w.val
          [] w.ask = "remove" -> None
          [] OTHER -> @]

Init ==
    /\ doc \in [Items -> Values \cup {None}]
    /\ active = {}
    /\ op \in [Threads -> Ops]
    /\ applied = {}
    /\ overlap = {}
    /\ stray = {}

Begin(t) ==
    /\ t \notin active
    /\ \E w \in Ops : op' = [op EXCEPT ![t] = w]
    /\ active' = active \cup {t}
    /\ applied' = applied \ {t}
    /\ overlap' = IF active = {} THEN overlap \ {t} ELSE overlap \cup active \cup {t}
    /\ UNCHANGED <<doc, stray>>

Apply(t) ==
    /\ t \in active \ applied
    /\ doc' = Effect(op[t], doc)
    /\ applied' = applied \cup {t}
    /\ UNCHANGED <<active, op, overlap, stray>>

\* What is left of t's call when it ends.
Leaves(t) ==
    /\ active' = active \ {t}
    /\ stray' \subseteq stray \cup (IF t \in applied THEN {} ELSE {op[t]})
    /\ UNCHANGED <<doc, op, applied, overlap>>

Return(t) ==
    /\ t \in active
    /\ op[t].ask = "load" \/ t \in applied \cup overlap
    /\ Leaves(t)

Throw(t) ==
    /\ t \in active
    /\ Leaves(t)

\* A write of a call that has ended takes effect late, or is lost.
Late ==
    /\ \E w \in stray : doc' = Effect(w, doc)
    /\ stray' \subseteq stray
    /\ UNCHANGED <<active, op, applied, overlap>>

Lose ==
    /\ stray' \subseteq stray
    /\ UNCHANGED <<doc, active, op, applied, overlap>>

Next ==
    \/ \E t \in Threads : Begin(t) \/ Apply(t) \/ Return(t) \/ Throw(t)
    \/ Late
    \/ Lose

Spec == Init /\ [][Next]_vars

=============================================================================
