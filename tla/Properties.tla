----------------------------- MODULE Properties -----------------------------
(***************************************************************************)
(* One property: its owner, its profit, and the money of those who trade   *)
(* it.                                                                     *)
(*                                                                         *)
(* Every operation writes the document first and changes memory after.  An *)
(* Update that throws may have taken effect, or take effect later; one     *)
(* that returns may do so without effect, or before it (Documents shows    *)
(* how: GetDB and getLastError are shared between threads).  The owner     *)
(* goes to the database at once; a player's money gets there with the next *)
(* Sync of his profile.  A dialog answers later than it was shown.         *)
(*                                                                         *)
(* External: the game server, the clock, the database.  Anybody may spawn  *)
(* (OnPlayerRequestSpawn asks for nothing), so some players may be guests  *)
(* without a document.  Names, positions and map icons are left out.       *)
(***************************************************************************)
EXTENDS Integers

CONSTANTS
    Players,     \* the players, by their profiles
    Guests,      \* players who have not registered
    NoOwner,     \* an unset object id
    Value,       \* the price, `_value`
    Profit,      \* the profit of one period, `_profit`
    Period,      \* seconds of one period, 1440 in the code
    StartMoney,  \* what every player begins with
    MaxTime,     \* bound on the clock
    MaxMoney,    \* bound on the money of somebody who sells
    MaxDoubts    \* bound on the writes that take effect late, or unnoticed, or never

ASSUME PropertiesAssumption ==
    /\ NoOwner \notin Players
    /\ Guests \subseteq Players
    /\ Value \in Nat
    /\ Profit \in Nat
    /\ Period \in Nat \ {0}
    /\ StartMoney \in Nat
    /\ MaxTime \in Nat
    /\ MaxMoney \in Nat
    /\ MaxDoubts \in Nat

VARIABLES
    now,      \* time(0)
    doc,      \* the document
    prop,     \* the Property in PropertyMgr
    money,    \* `_gamedata.money` of each player
    saved,    \* the money in each profile's document
    stray,    \* writes sent and given up, which may still take effect
    doubts,   \* how many writes there were whose effect was in doubt
    dlg,      \* the dialog each client shows that buys, or draws and sells
    created,  \* history: when the document was created
    periods,  \* history: periods of profit paid out, to whomever
    drawn,    \* history: profit each player has drawn
    unsure,   \* history: fields whose last write may differ from the document
    doubted,  \* history: players who traded while the stored owner was unsure
    undone,   \* history: what leaving unsaved gave a registered player, or took
    paidat,   \* history: the last draw the server knew of
    reopened  \* history: seconds a load set the last draw back by

vars == <<now, doc, prop, money, saved, stray, doubts, dlg, created, periods,
          drawn, unsure, doubted, undone, paidat, reopened>>
store == <<doc, stray, doubts, unsure>>
profit == <<periods, drawn, paidat>>
history == <<created, profit, doubted, undone, reopened>>

\* A property as it is stored and as it is in memory; exists: there is one.
Props == [exists : BOOLEAN, owner : Players \cup {NoOwner}, lastdraw : Nat]

\* GetUniqueID of a profile.
UniqueID(p) == IF p \in Guests THEN NoOwner ELSE p

NoProp == [exists |-> FALSE, owner |-> NoOwner, lastdraw |-> 0]

Init ==
    /\ now = 0
    /\ doc = NoProp
    /\ prop = NoProp
    /\ money = [p \in Players |-> StartMoney]
    /\ saved = money
    /\ stray = {}
    /\ doubts = 0
    /\ dlg = [p \in Players |-> "none"]
    /\ created = 0
    /\ periods = 0
    /\ drawn = [p \in Players |-> 0]
    /\ unsure = {}
    /\ doubted = {}
    /\ undone = [p \in Players \ Guests |-> 0]
    /\ paidat = 0
    /\ reopened = 0

Tick ==
    /\ now < MaxTime
    /\ now' = now + 1
    /\ UNCHANGED <<store, prop, money, saved, dlg, history>>

(***************************************************************************)
(* Writing.  w is the document with what is under way to it.               *)
(***************************************************************************)

Stored == [doc |-> doc, stray |-> stray, doubts |-> doubts, unsure |-> unsure]

Fields == {"owner", "lastdraw"}

\* Fields some write is under way to.
UnderWay(strays) == {f \in Fields : \E s \in strays : s.field = f}

\* The Update of field f takes effect and returns: all is well, unless an older
\* one is still under way.
Clean(w, f, v) ==
    [doc |-> [w.doc EXCEPT ![f] = v], stray |-> w.stray, doubts |-> w.doubts,
     unsure |-> (w.unsure \ {f}) \cup UnderWay(w.stray)]

\* Or it is in doubt, the document being d and under way what is in under: it
\* never takes effect, or it does and throws, or it takes effect later.
Doubtful(w, f, d, under) ==
    [doc |-> d, stray |-> under, doubts |-> w.doubts + 1, unsure |-> w.unsure \cup {f}]

InVain(w, f) == Doubtful(w, f, w.doc, w.stray)
Unnoticed(w, f, v) == Doubtful(w, f, [w.doc EXCEPT ![f] = v], w.stray)
Later(w, f, v) == Doubtful(w, f, w.doc, w.stray \cup {[field |-> f, value |-> v]})

WithinBound(w, outcomes) == IF w.doubts < MaxDoubts THEN outcomes ELSE {}

\* What there may be when Update has returned, and when it has thrown.
Returned(w, f, v) == {Clean(w, f, v)} \cup WithinBound(w, {InVain(w, f), Later(w, f, v)})
Threw(w, f, v) == {w} \cup WithinBound(w, {Unnoticed(w, f, v), Later(w, f, v)})

Writes(w) ==
    /\ doc' = w.doc
    /\ stray' = w.stray
    /\ doubts' = w.doubts
    /\ unsure' = w.unsure

\* A write that was under way takes effect, on top of whatever came after it.
LateWrite ==
    \E s \in stray :
        /\ stray' = stray \ {s}
        /\ IF s.field = "money"
           THEN saved' = [saved EXCEPT ![s.of] = s.value] /\ UNCHANGED doc
           ELSE doc' = [doc EXCEPT ![s.field] = s.value] /\ UNCHANGED saved
        /\ UNCHANGED <<now, prop, money, doubts, dlg, unsure, history>>

(***************************************************************************)
(* Creating and loading.                                                   *)
(***************************************************************************)

\* The document is inserted and fetched back; if the fetch throws, it stays.
CreateProperty ==
    /\ ~ doc.exists
    /\ doc' = [exists |-> TRUE, owner |-> NoOwner, lastdraw |-> now]
    /\ prop' \in {doc', NoProp}
    /\ created' = now
    /\ paidat' = now
    /\ UNCHANGED <<now, money, saved, stray, doubts, dlg, periods, drawn, unsure,
                   doubted, undone, reopened>>

\* The load reads the document, or stops before it at one it cannot read.
Loads ==
    /\ \/ /\ prop' = doc
          /\ paidat' = doc.lastdraw
          /\ reopened' = reopened + (IF doc.lastdraw < paidat
                                     THEN paidat - doc.lastdraw ELSE 0)
       \/ prop' = NoProp /\ UNCHANGED <<paidat, reopened>>
    /\ unsure' = UnderWay(stray)

LoadAllFromDatabase ==
    /\ Loads
    /\ UNCHANGED <<now, doc, stray, doubts, money, saved, dlg, created, periods, drawn,
                   doubted, undone>>

(***************************************************************************)
(* Dialogs.                                                                *)
(***************************************************************************)

\* OnSale and the marker that goes with it.
OnSale == prop.owner = NoOwner

Effect(p) ==
    /\ prop.exists
    /\ dlg' = [dlg EXCEPT ![p] = IF OnSale THEN "onsale"
                                 ELSE IF prop.owner = UniqueID(p) THEN "sold" ELSE "none"]
    /\ UNCHANGED <<now, store, prop, money, saved, history>>

\* The client answers the dialog it shows, which may be an old one.  Whatever
\* throws leaves all but the dialog as it is.
Answers(p, d) ==
    /\ dlg[p] = d
    /\ dlg' = [dlg EXCEPT ![p] = "none"]

Dismiss(p) ==
    /\ dlg[p] # "none"
    /\ Answers(p, dlg[p])
    /\ UNCHANGED <<now, store, prop, money, saved, history>>

(***************************************************************************)
(* Trading.                                                                *)
(***************************************************************************)

\* Who trades while the stored owner is unsure is on his own.
Doubts(w, p) == doubted' = IF "owner" \in w.unsure THEN doubted \cup {p} ELSE doubted

\* Mutants: the purchase does not look whether the property is on sale, or
\* whether the buyer can pay.
Purchase_NotOnSale(p) ==
    /\ Answers(p, "onsale")
    /\ prop.exists /\ money[p] >= Value
    /\ \E w \in Returned(Stored, "owner", UniqueID(p)) : Writes(w) /\ Doubts(w, p)
    /\ prop' = [prop EXCEPT !.owner = UniqueID(p)]
    /\ money' = [money EXCEPT ![p] = @ - Value]
    /\ UNCHANGED <<now, saved, created, profit, undone, reopened>>

Purchase_OnCredit(p) ==
    /\ Answers(p, "onsale")
    /\ prop.exists /\ OnSale
    /\ \E w \in Returned(Stored, "owner", UniqueID(p)) : Writes(w) /\ Doubts(w, p)
    /\ prop' = [prop EXCEPT !.owner = UniqueID(p)]
    /\ money' = [money EXCEPT ![p] = @ - Value]
    /\ UNCHANGED <<now, saved, created, profit, undone, reopened>>

Purchase(p) ==
    /\ Answers(p, "onsale")
    /\ prop.exists /\ OnSale /\ money[p] >= Value
    /\ \E w \in Returned(Stored, "owner", UniqueID(p)) : Writes(w) /\ Doubts(w, p)
    /\ prop' = [prop EXCEPT !.owner = UniqueID(p)]
    /\ money' = [money EXCEPT ![p] = @ - Value]
    /\ UNCHANGED <<now, saved, created, profit, undone, reopened>>

\* The Update of the owner throws.
PurchaseFails(p) ==
    /\ Answers(p, "onsale")
    /\ prop.exists /\ OnSale /\ money[p] >= Value
    /\ \E w \in Threw(Stored, "owner", UniqueID(p)) : Writes(w) /\ Doubts(w, p)
    /\ UNCHANGED <<now, prop, money, saved, created, profit, undone, reopened>>

\* Mutant: a period that has begun counts.
Elapsed_RoundedUp == (now - prop.lastdraw + Period - 1) \div Period

\* The whole periods since the last draw, and what they earned.
Elapsed == (now - prop.lastdraw) \div Period
Earns == Elapsed * Profit

\* Draw by the owner p, its Update having left w.
Draws(p, w) ==
    \/ /\ Earns # 0
       /\ w \in Returned(Stored, "lastdraw", now)
       /\ periods' = periods + Elapsed
       /\ drawn' = [drawn EXCEPT ![p] = @ + Earns]
       /\ paidat' = now
    \/ Earns = 0 /\ w = Stored /\ UNCHANGED profit

\* The last draw as Draw leaves it in memory.
LastDraw == IF Earns = 0 THEN prop.lastdraw ELSE now

Draw(p) ==
    /\ Answers(p, "sold")
    /\ prop.exists /\ prop.owner = UniqueID(p)
    /\ \E w \in {Stored} \cup Returned(Stored, "lastdraw", now) :
          Draws(p, w) /\ Writes(w)
    /\ prop' = [prop EXCEPT !.lastdraw = LastDraw]
    /\ money' = [money EXCEPT ![p] = @ + Earns]
    /\ UNCHANGED <<now, saved, created, doubted, undone, reopened>>

\* The Update of Draw, called by itself or from Sell, throws.
DrawFails(p) ==
    /\ Answers(p, "sold")
    /\ prop.exists /\ prop.owner = UniqueID(p)
    /\ Earns # 0
    /\ \E w \in Threw(Stored, "lastdraw", now) : Writes(w)
    /\ UNCHANGED <<now, prop, money, saved, history>>

\* Mutant: the new owner is not written to the database.
Sell_NotSaved(p) ==
    /\ Answers(p, "sold")
    /\ prop.exists /\ ~ OnSale /\ prop.owner = UniqueID(p)
    /\ money[p] <= MaxMoney
    /\ \E w \in {Stored} \cup Returned(Stored, "lastdraw", now) :
          Draws(p, w) /\ Writes(w) /\ Doubts(w, p)
    /\ prop' = [prop EXCEPT !.owner = NoOwner, !.lastdraw = LastDraw]
    /\ money' = [money EXCEPT ![p] = @ + Earns + Value]
    /\ UNCHANGED <<now, saved, created, undone, reopened>>

\* Sell draws first.
Sell(p) ==
    /\ Answers(p, "sold")
    /\ prop.exists /\ ~ OnSale /\ prop.owner = UniqueID(p)
    /\ money[p] <= MaxMoney
    /\ \E d \in {Stored} \cup Returned(Stored, "lastdraw", now) :
          /\ Draws(p, d)
          /\ \E w \in Returned(d, "owner", NoOwner) : Writes(w) /\ Doubts(w, p)
    /\ prop' = [prop EXCEPT !.owner = NoOwner, !.lastdraw = LastDraw]
    /\ money' = [money EXCEPT ![p] = @ + Earns + Value]
    /\ UNCHANGED <<now, saved, created, undone, reopened>>

\* The profit is drawn; the Update of the owner throws.
SellFails(p) ==
    /\ Answers(p, "sold")
    /\ prop.exists /\ ~ OnSale /\ prop.owner = UniqueID(p)
    /\ \E d \in {Stored} \cup Returned(Stored, "lastdraw", now) :
          /\ Draws(p, d)
          /\ \E w \in Threw(d, "owner", NoOwner) : Writes(w) /\ Doubts(w, p)
    /\ prop' = [prop EXCEPT !.lastdraw = LastDraw]
    /\ money' = [money EXCEPT ![p] = @ + Earns]
    /\ UNCHANGED <<now, saved, created, undone, reopened>>

(***************************************************************************)
(* Saving and losing money.                                                *)
(***************************************************************************)

\* A guest has nothing to save to.  The Update may be late as any other; one that
\* never takes effect changes nothing.
Saves(p) ==
    /\ p \notin Guests
    /\ \/ saved' = [saved EXCEPT ![p] = money[p]] /\ UNCHANGED <<stray, doubts>>
       \/ /\ doubts < MaxDoubts
          /\ doubts' = doubts + 1
          /\ stray' = stray \cup {[field |-> "money", of |-> p, value |-> money[p]]}
          /\ UNCHANGED saved

Sync(p) ==
    /\ Saves(p)
    /\ UNCHANGED <<now, doc, unsure, prop, money, dlg, history>>

\* The players in out leave and log in again, to what is saved then.
LogInAgain(out) ==
    /\ money' = [p \in Players |-> IF p \in out THEN saved'[p] ELSE money[p]]
    /\ undone' = [p \in Players \ Guests |->
                     IF p \in out THEN undone[p] + (saved'[p] - money[p]) ELSE undone[p]]
    /\ dlg' = [p \in Players |-> IF p \in out THEN "none" ELSE dlg[p]]

\* The profile is saved, but not when the player timed out, and removed; when he
\* connects again it is read again.
Disconnect(p) ==
    /\ Saves(p) \/ UNCHANGED <<saved, stray, doubts>>
    /\ LogInAgain({p})
    /\ UNCHANGED <<now, doc, unsure, prop, created, profit, doubted, reopened>>

\* The process dies and is started again.
Crash ==
    /\ Loads
    /\ saved' = saved /\ LogInAgain(Players)
    /\ UNCHANGED <<now, doc, stray, doubts, created, periods, drawn, doubted>>

Next ==
    \/ Tick \/ CreateProperty \/ LoadAllFromDatabase \/ LateWrite \/ Crash
    \/ \E p \in Players :
          \/ Effect(p) \/ Dismiss(p) \/ Sync(p) \/ Disconnect(p)
          \/ Purchase(p) \/ PurchaseFails(p)
          \/ Draw(p) \/ DrawFails(p)
          \/ Sell(p) \/ SellFails(p)

Spec == Init /\ [][Next]_vars

(***************************************************************************)
(* Properties.                                                             *)
(***************************************************************************)

\* A write under way.
Strays ==
    [field : {"owner"}, value : Players \cup {NoOwner}]
        \cup [field : {"lastdraw"}, value : Nat]
        \cup [field : {"money"}, of : Players, value : Nat]

\* Nobody's money is ever below zero: nobody buys what he cannot pay.
TypeOK ==
    /\ now \in Nat
    /\ doc \in Props
    /\ prop \in Props
    /\ money \in [Players -> Nat]
    /\ saved \in [Players -> Nat]
    /\ stray \subseteq Strays
    /\ doubts \in Nat
    /\ dlg \in [Players -> {"none", "onsale", "sold"}]
    /\ created \in Nat
    /\ periods \in Nat
    /\ drawn \in [Players -> Nat]
    /\ unsure \subseteq Fields
    /\ doubted \subseteq Players
    /\ undone \in [Players \ Guests -> Int]
    /\ paidat \in Nat
    /\ reopened \in Nat

\* Purchase, Draw and Sell leave the Property and its document equal, through
\* reloads, old dialogs and crashes.  A write whose outcome is in doubt unsettles
\* its own field only, and only until the next load, or a later write of it,
\* with nothing under way any more.
PropertySaved ==
    prop.exists => doc.exists /\ \A f \in Fields \ unsure : prop[f] = doc[f]

\* Purchase and Sell move the price both ways and Draw adds the profit: what a
\* player has is what he began with and what he drew, less the price while the
\* database has him for the owner.  Leaving without a Sync (a time out, a crash)
\* breaks it by exactly what was not saved.  It holds of every registered player,
\* whichever old dialogs are answered, unless he himself traded while it was in
\* doubt which owner is stored.
Ledger ==
    \A p \in Players \ (Guests \cup doubted) :
        money[p] = StartMoney + drawn[p] + undone[p]
                       - (IF doc.owner = p THEN Value ELSE 0)

\* However often the property changes hands, Draw never pays for a period twice
\* of its own accord: the periods paid out have all passed since the property
\* was created, or lie in the time by which a load, reading a document that
\* had lost a draw, set the last draw back.
ProfitEarned == periods * Period <= (now - created) + reopened

=============================================================================
