-------------------------- MODULE DebtAnnouncements --------------------------
(***************************************************************************)
(* What follows a debt change's commit (debt.service.ts, sessions.service.ts *)
(* 224-232): its handler queries the customer's balance, emits the event in *)
(* the process, and answers.  Handlers interleave at every await, and the   *)
(* query or the whole process may fail after the commit.  The event reaches *)
(* the sockets and, if it is a new debt, a listener that inserts a          *)
(* notification on its own time.                                           *)
(*                                                                         *)
(* `feed` is what one process has sent to its sockets.  The events of       *)
(* sessions and computers that carry no debt are left out.                  *)
(***************************************************************************)
EXTENDS DebtLedger

CONSTANTS
  Handler,        \* request handlers that can be in flight at once
  Shortfalls,     \* what sessions end short by
  Repayments,     \* what customers pay
  Adjustments     \* what owners correct by

ASSUME FeedAssumption ==
  /\ Shortfalls \subseteq Int
  /\ Repayments \subseteq Int
  /\ Adjustments \subseteq Int

VARIABLES
  todo,           \* handler -> what it still has to do after its commit
  entry,          \* handler -> the ledger entry it committed
  seen,           \* handler -> the balance its query returned
  feed,           \* the events emitted, oldest first
  saving,         \* events whose notification is being inserted
  inbox,          \* events whose notification is stored
  unheard         \* entries whose handler failed before it announced them

vars == <<ledger, todo, entry, seen, feed, saving, inbox, unheard>>

DebtEvent == {"debt.created", "debt.updated"}

Event == [event : DebtEvent \cup {"session.ended"}, entry : Nat, balance : Int]

Init ==
  /\ ledger = <<>>
  /\ todo = [h \in Handler |-> <<>>]
  /\ entry = [h \in Handler |-> 0]
  /\ seen = [h \in Handler |-> 0]
  /\ feed = <<>>
  /\ saving = {}
  /\ inbox = {}
  /\ unheard = {}

-----------------------------------------------------------------------------
(* The commit *)

FaultyAnnounceTwice(kind) ==     \* addDebt announces inside a transaction, too
  IF kind = "end" THEN <<"ended", "read", "emit", "read", "emit">> ELSE <<"read", "emit">>

FaultyForgetDebt(kind) ==        \* nobody announces what a transaction added
  IF kind = "end" THEN <<"ended">> ELSE <<"read", "emit">>

FaultyDebtFirst(kind) ==
  IF kind = "end" THEN <<"read", "emit", "ended">> ELSE <<"read", "emit">>

\* addDebt says nothing while it runs in the transaction of `end`, which
\* announces the session and then the debt when it has committed.
FollowUp(kind) ==
  IF kind = "end" THEN <<"ended", "read", "emit">> ELSE <<"read", "emit">>

FaultyCommitted(h, kind) ==      \* announces the customer's previous entry
  /\ todo[h] = <<>>
  /\ todo' = [todo EXCEPT ![h] = FollowUp(kind)]
  /\ entry' = [entry EXCEPT ![h] = Len(ledger)]
  /\ UNCHANGED <<seen, feed, saving, inbox, unheard>>

Committed(h, kind) ==
  /\ todo[h] = <<>>
  /\ todo' = [todo EXCEPT ![h] = FollowUp(kind)]
  /\ entry' = [entry EXCEPT ![h] = Len(ledger) + 1]
  /\ UNCHANGED <<seen, feed, saving, inbox, unheard>>

\* A session ends short: each adds its one entry, so the entry names it.
EndShort(h, c, amount) == AddDebt(c, amount, Len(ledger) + 1) /\ Committed(h, "end")

Pay(h, c, amount) == RecordPayment(c, amount) /\ Committed(h, "pay")

Adjust(h, c, amount) == Correct(c, amount) /\ Committed(h, "correct")

-----------------------------------------------------------------------------
(* The announcement *)

At(h, step) == todo[h] # <<>> /\ Head(todo[h]) = step

\* One step done; a handler that has none left answers and is free.
StepDone(h) ==
  /\ todo' = [todo EXCEPT ![h] = Tail(@)]
  /\ entry' = [entry EXCEPT ![h] = IF Len(todo[h]) = 1 THEN 0 ELSE @]

Emit(name, h, balance) ==
  feed' = Append(feed, [event |-> name, entry |-> entry[h], balance |-> balance])

AnnounceEnd(h) ==
  /\ At(h, "ended")
  /\ StepDone(h)
  /\ Emit("session.ended", h, 0)
  /\ UNCHANGED <<ledger, seen, saving, inbox, unheard>>

FaultySeenBy(h) ==               \* the query ran before the commit
  Balance(ledger[entry[h]].customer) - ledger[entry[h]].amount

\* The query runs outside any transaction: it sees what is committed by now.
SeenBy(h) == Balance(ledger[entry[h]].customer)

ReadBalance(h) ==
  /\ At(h, "read")
  /\ StepDone(h)
  /\ seen' = [seen EXCEPT ![h] = SeenBy(h)]
  /\ UNCHANGED <<ledger, feed, saving, inbox, unheard>>

\* The request answers with an error although its entry is committed.
QueryFails(h) ==
  /\ At(h, "read")
  /\ todo' = [todo EXCEPT ![h] = <<>>]
  /\ entry' = [entry EXCEPT ![h] = 0]
  /\ unheard' = unheard \cup {entry[h]}
  /\ UNCHANGED <<ledger, seen, feed, saving, inbox>>

FaultyEventOf(type) == IF type = "DEBT_PAYMENT" THEN "debt.updated" ELSE "debt.created"

EventOf(type) == IF type = "DEBT_ADD" THEN "debt.created" ELSE "debt.updated"

\* The listener starts its insert at once and is not waited for.
Announce(h) ==
  LET name == EventOf(ledger[entry[h]].type)
  IN  /\ At(h, "emit")
      /\ StepDone(h)
      /\ Emit(name, h, seen[h])
      /\ seen' = [seen EXCEPT ![h] = 0]
      /\ saving' = IF name = "debt.created" THEN saving \cup {Len(feed) + 1} ELSE saving
      /\ UNCHANGED <<ledger, inbox, unheard>>

-----------------------------------------------------------------------------
(* Notifications *)

StoreNotification(n) ==
  /\ n \in saving
  /\ saving' = saving \ {n}
  /\ inbox' = inbox \cup {n}
  /\ UNCHANGED <<ledger, todo, entry, seen, feed, unheard>>

\* A failed insert is logged and contained.
DropNotification(n) ==
  /\ n \in saving
  /\ saving' = saving \ {n}
  /\ UNCHANGED <<ledger, todo, entry, seen, feed, inbox, unheard>>

\* The process dies: what is committed stays, what was to follow does not.
Crash ==
  /\ unheard' = unheard \cup {entry[h] : h \in {g \in Handler : todo[g] # <<>>}}
  /\ todo' = [h \in Handler |-> <<>>]
  /\ entry' = [h \in Handler |-> 0]
  /\ seen' = [h \in Handler |-> 0]
  /\ saving' = {}
  /\ UNCHANGED <<ledger, feed, inbox>>

Proceed(h) == AnnounceEnd(h) \/ ReadBalance(h) \/ Announce(h)

Next ==
  \/ \E h \in Handler, c \in CustomerId :
       \/ \E amount \in Shortfalls : EndShort(h, c, amount)
       \/ \E amount \in Repayments : Pay(h, c, amount)
       \/ \E amount \in Adjustments : Adjust(h, c, amount)
  \/ \E h \in Handler : Proceed(h) \/ QueryFails(h)
  \/ \E n \in saving : StoreNotification(n) \/ DropNotification(n)
  \/ Crash

Spec == Init /\ [][Next]_vars

\* The event loop runs every handler whose query has returned, and every query
\* returns or fails.
FairSpec == Spec /\ \A h \in Handler : WF_vars(Proceed(h))

-----------------------------------------------------------------------------
(* Properties *)

Busy(h) == todo[h] # <<>>

Announcements(j) == {n \in DOMAIN feed : feed[n].event \in DebtEvent /\ feed[n].entry = j}

\* The types of the variables; a busy handler has an entry of the ledger.
TypeOK ==
  /\ LedgerTypeOK
  /\ todo \in [Handler -> Seq({"ended", "read", "emit"})]
  /\ entry \in [Handler -> Nat]
  /\ \A h \in Handler : IF Busy(h) THEN entry[h] \in DOMAIN ledger ELSE entry[h] = 0
  /\ seen \in [Handler -> Int]
  /\ feed \in Seq(Event)
  /\ saving \subseteq DOMAIN feed
  /\ inbox \subseteq DOMAIN feed
  /\ unheard \subseteq DOMAIN ledger

\* Every committed entry is in one place: announced once, in the hands of one
\* handler, or given up with that handler.  None is announced twice, although
\* both addDebt and announceDebtChange can do it (debt.service.ts:66, 136-141).
AnnouncedOnce ==
  \A j \in DOMAIN ledger :
    LET hands == {h \in Handler : Busy(h) /\ entry[h] = j}
    IN  Cardinality(Announcements(j)) + Cardinality(hands)
          + Cardinality(unheard \cap {j}) = 1

\* The balance of c after the first n entries of the ledger.
BalanceAt(c, n) == MapThenSumSet(AmountOf, {j \in EntriesOf(c) : j <= n})

\* An announced balance was the customer's committed balance at some moment
\* after the announced entry's own commit, whatever other handlers committed
\* and announced meanwhile (sessions.service.ts:228-232).
AnnouncedAfterCommit ==
  \A n \in DOMAIN feed :
    feed[n].event \in DebtEvent =>
      LET j == feed[n].entry
      IN  \E k \in j .. Len(ledger) : feed[n].balance = BalanceAt(ledger[j].customer, k)

\* Nothing of c's is under way, and nothing was given up.
Quiet(c) ==
  /\ \A h \in Handler : Busy(h) => ledger[entry[h]].customer # c
  /\ EntriesOf(c) \cap unheard = {}

DebtEventsOf(c) ==
  {n \in DOMAIN feed : feed[n].event \in DebtEvent /\ ledger[feed[n].entry].customer = c}

\* When a customer's debt is quiet its current balance has been announced, by
\* the handler that committed last, in whatever order the handlers queried.
CurrentBalanceIsAnnounced ==
  \A c \in CustomerId :
    Quiet(c) /\ EntriesOf(c) # {} =>
      \E n \in DebtEventsOf(c) : feed[n].balance = Balance(c)

\* Listeners hear that a session has ended before they hear of its debt, with
\* other handlers' events in between (sessions.service.ts:224-232).
EndBeforeDebt ==
  \A n \in DOMAIN feed :
    feed[n].event \in DebtEvent /\ ledger[feed[n].entry].session # 0 =>
      \E m \in 1 .. n - 1 :
        feed[m].event = "session.ended" /\ feed[m].entry = feed[n].entry

\* Notifications, stored or on their way, are about new debts only, one each:
\* not about payments or corrections, in whatever order the inserts finish
\* (notifications.service.ts:25-54).
NoFalseAlarm ==
  \A n \in saving \cup inbox :
    /\ ledger[feed[n].entry].type = "DEBT_ADD"
    /\ \A m \in saving \cup inbox : feed[m].entry = feed[n].entry => m = n

\* Every committed entry is announced in the end, unless its handler failed.
EveryEntryIsAnnounced ==
  \A j \in 1 .. MaxEntries :
    j \in DOMAIN ledger ~> Announcements(j) # {} \/ j \in unheard

\* What the code's comments promise: the balance an event reports is "the
\* authoritative value" (debt.service.ts:217-218, sessions.service.ts:228-229),
\* so a listener that keeps the last one it heard of a quiet customer's knows
\* what the customer owes.
LastBalanceIsAuthoritative ==
  \A c \in CustomerId :
    Quiet(c) /\ EntriesOf(c) # {} =>
      \E last \in DebtEventsOf(c) :
        /\ \A n \in DebtEventsOf(c) : n <= last
        /\ feed[last].balance = Balance(c)

=============================================================================
