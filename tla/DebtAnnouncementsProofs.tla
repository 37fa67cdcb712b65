----------------------- MODULE DebtAnnouncementsProofs -----------------------
(* Invariance proofs for DebtAnnouncements, for any handlers and amounts. *)
EXTENDS DebtAnnouncements, BalanceTheorems

Plans == {<<"ended", "read", "emit">>, <<"read", "emit">>, <<"emit">>, <<>>}

\* TypeOK, and what a handler still has to do is a tail of what FollowUp gives.
TypeInv ==
  /\ LedgerTypeOK
  /\ todo \in [Handler -> Plans]
  /\ entry \in [Handler -> Nat]
  /\ \A h \in Handler : Busy(h) => entry[h] \in DOMAIN ledger
  /\ \A h \in Handler : ~Busy(h) => entry[h] = 0
  /\ seen \in [Handler -> Int]
  /\ feed \in Seq(Event)
  /\ saving \subseteq DOMAIN feed
  /\ inbox \subseteq DOMAIN feed
  /\ unheard \subseteq DOMAIN ledger

LEMMA PlanFacts ==
  /\ Head(<<"ended", "read", "emit">>) = "ended"
  /\ Tail(<<"ended", "read", "emit">>) = <<"read", "emit">>
  /\ Len(<<"ended", "read", "emit">>) = 3
  /\ Head(<<"read", "emit">>) = "read"
  /\ Tail(<<"read", "emit">>) = <<"emit">>
  /\ Len(<<"read", "emit">>) = 2
  /\ Head(<<"emit">>) = "emit"
  /\ Tail(<<"emit">>) = <<>>
  /\ Len(<<"emit">>) = 1
  /\ Len(<<>>) = 0
OBVIOUS

LEMMA PlansDiffer ==
  \A p, q \in Plans : p # q => Len(p) # Len(q)
BY PlanFacts DEF Plans

LEMMA AtPlan ==
  ASSUME NEW h \in Handler, todo[h] \in Plans
  PROVE  /\ At(h, "ended") <=> todo[h] = <<"ended", "read", "emit">>
         /\ At(h, "read") <=> todo[h] = <<"read", "emit">>
         /\ At(h, "emit") <=> todo[h] = <<"emit">>
BY PlanFacts DEF At, Plans

-----------------------------------------------------------------------------
(* What each step does *)

\* A commit of h, whichever request it is of.
Commits(h) ==
  \E c \in CustomerId :
    \/ \E amount \in Shortfalls : EndShort(h, c, amount)
    \/ \E amount \in Repayments : Pay(h, c, amount)
    \/ \E amount \in Adjustments : Adjust(h, c, amount)

NewEntry == Len(ledger) + 1

LEMMA CommitEffect ==
  ASSUME TypeInv, NEW h \in Handler, Commits(h)
  PROVE  /\ LedgerTypeOK'
         /\ Len(ledger') = NewEntry
         /\ DOMAIN ledger' = DOMAIN ledger \cup {NewEntry}
         /\ NewEntry \notin DOMAIN ledger
         /\ \A j \in DOMAIN ledger : ledger'[j] = ledger[j]
         /\ todo[h] = <<>>
         /\ \E plan \in {<<"ended", "read", "emit">>, <<"read", "emit">>} :
              /\ todo' = [todo EXCEPT ![h] = plan]
              /\ plan = <<"read", "emit">> => ledger'[NewEntry].session = 0
         /\ entry' = [entry EXCEPT ![h] = NewEntry]
         /\ UNCHANGED <<seen, feed, saving, inbox, unheard>>
<1>1. PICK c \in CustomerId, type \in EntryType, amount \in Int, session \in Nat,
           kind \in {"end", "pay", "correct"} :
        /\ Insert(c, type, amount, session)
        /\ Committed(h, kind)
        /\ kind # "end" => session = 0
  <2>1. PICK c \in CustomerId :
          \/ \E amount \in Shortfalls : EndShort(h, c, amount)
          \/ \E amount \in Repayments : Pay(h, c, amount)
          \/ \E amount \in Adjustments : Adjust(h, c, amount)
    BY DEF Commits
  <2>2. NewEntry \in Nat
    BY DEF NewEntry, TypeInv, TypeOK, LedgerTypeOK
  <2>3. CASE \E amount \in Shortfalls : EndShort(h, c, amount)
    BY <2>2, <2>3, FeedAssumption DEF EndShort, AddDebt, EntryType, NewEntry
  <2>4. CASE \E amount \in Repayments : Pay(h, c, amount)
    <3>1. PICK amount \in Repayments : Pay(h, c, amount)
      BY <2>4
    <3>2. Insert(c, "DEBT_PAYMENT", -amount, 0) /\ Committed(h, "pay")
      BY <3>1 DEF Pay, RecordPayment
    <3>3. -amount \in Int /\ "DEBT_PAYMENT" \in EntryType
      BY FeedAssumption DEF EntryType
    <3> QED
      BY <3>2, <3>3
  <2>5. CASE \E amount \in Adjustments : Adjust(h, c, amount)
    BY <2>5, FeedAssumption DEF Adjust, Correct, EntryType
  <2> QED
    BY <2>1, <2>3, <2>4, <2>5
<1>2. /\ LedgerTypeOK'
      /\ Len(ledger') = NewEntry
      /\ DOMAIN ledger' = DOMAIN ledger \cup {NewEntry}
      /\ NewEntry \notin DOMAIN ledger
      /\ \A j \in DOMAIN ledger : ledger'[j] = ledger[j]
      /\ ledger'[NewEntry] =
           [customer |-> c, type |-> type, amount |-> amount, session |-> session]
  <2>1. LedgerTypeOK
    BY DEF TypeInv, TypeOK
  <2> QED
    BY <1>1, <2>1, InsertEffect DEF NewEntry
<1>3. /\ todo[h] = <<>>
      /\ todo' = [todo EXCEPT ![h] = FollowUp(kind)]
      /\ entry' = [entry EXCEPT ![h] = NewEntry]
      /\ UNCHANGED <<seen, feed, saving, inbox, unheard>>
  BY <1>1 DEF Committed, NewEntry
<1>4. /\ FollowUp(kind) \in {<<"ended", "read", "emit">>, <<"read", "emit">>}
      /\ FollowUp(kind) = <<"read", "emit">> => kind # "end"
  BY PlanFacts DEF FollowUp
<1>5. ledger'[NewEntry].session = session
  BY <1>2
<1> QED
  BY <1>1, <1>2, <1>3, <1>4, <1>5

\* An event that reports entry j joins the feed.
Emits(name, j, balance) ==
  feed' = Append(feed, [event |-> name, entry |-> j, balance |-> balance])

LEMMA EmitEffect ==
  ASSUME TypeInv, NEW name \in DebtEvent \cup {"session.ended"}, NEW j \in Nat,
         NEW balance \in Int, Emits(name, j, balance)
  PROVE  /\ feed' \in Seq(Event)
         /\ Len(feed) \in Nat
         /\ DOMAIN feed = 1 .. Len(feed)
         /\ DOMAIN feed' = DOMAIN feed \cup {Len(feed) + 1}
         /\ Len(feed) + 1 \notin DOMAIN feed
         /\ \A n \in DOMAIN feed : feed'[n] = feed[n]
         /\ feed'[Len(feed) + 1].event = name
         /\ feed'[Len(feed) + 1].entry = j
         /\ feed'[Len(feed) + 1].balance = balance
<1>1. [event |-> name, entry |-> j, balance |-> balance] \in Event
  BY DEF Event
<1>2. feed \in Seq(Event)
  BY DEF TypeInv
<1> QED
  BY <1>1, <1>2 DEF Emits

LEMMA EndedEffect ==
  ASSUME TypeInv, NEW h \in Handler, AnnounceEnd(h)
  PROVE  /\ todo[h] = <<"ended", "read", "emit">>
         /\ todo' = [todo EXCEPT ![h] = <<"read", "emit">>]
         /\ Emits("session.ended", entry[h], 0)
         /\ UNCHANGED <<ledger, entry, seen, saving, inbox, unheard>>
<1>1. todo[h] = <<"ended", "read", "emit">>
  BY AtPlan DEF AnnounceEnd, TypeInv
<1>2. Tail(todo[h]) = <<"read", "emit">> /\ Len(todo[h]) # 1
  BY <1>1, PlanFacts
<1>3. entry' = entry
  BY <1>2 DEF AnnounceEnd, StepDone, TypeInv, TypeOK
<1> QED
  BY <1>1, <1>2, <1>3 DEF AnnounceEnd, StepDone, Emit, Emits

LEMMA ReadEffect ==
  ASSUME TypeInv, NEW h \in Handler, ReadBalance(h)
  PROVE  /\ todo[h] = <<"read", "emit">>
         /\ todo' = [todo EXCEPT ![h] = <<"emit">>]
         /\ seen' = [seen EXCEPT ![h] = SeenBy(h)]
         /\ UNCHANGED <<ledger, entry, feed, saving, inbox, unheard>>
<1>1. todo[h] = <<"read", "emit">>
  BY AtPlan DEF ReadBalance, TypeInv
<1>2. Tail(todo[h]) = <<"emit">> /\ Len(todo[h]) # 1
  BY <1>1, PlanFacts
<1>3. entry' = entry
  BY <1>2 DEF ReadBalance, StepDone, TypeInv, TypeOK
<1> QED
  BY <1>1, <1>2, <1>3 DEF ReadBalance, StepDone

LEMMA FailEffect ==
  ASSUME TypeInv, NEW h \in Handler, QueryFails(h)
  PROVE  /\ todo[h] = <<"read", "emit">>
         /\ todo' = [todo EXCEPT ![h] = <<>>]
         /\ entry' = [entry EXCEPT ![h] = 0]
         /\ unheard' = unheard \cup {entry[h]}
         /\ UNCHANGED <<ledger, seen, feed, saving, inbox>>
BY AtPlan DEF QueryFails, TypeInv

LEMMA AnnounceEffect ==
  ASSUME TypeInv, NEW h \in Handler, Announce(h)
  PROVE  LET name == EventOf(ledger[entry[h]].type)
         IN  /\ todo[h] = <<"emit">>
             /\ todo' = [todo EXCEPT ![h] = <<>>]
             /\ entry' = [entry EXCEPT ![h] = 0]
             /\ Emits(name, entry[h], seen[h])
             /\ name \in DebtEvent
             /\ name = "debt.created" => ledger[entry[h]].type = "DEBT_ADD"
             /\ seen' = [seen EXCEPT ![h] = 0]
             /\ saving' = IF name = "debt.created" THEN saving \cup {Len(feed) + 1} ELSE saving
             /\ UNCHANGED <<ledger, inbox, unheard>>
<1>1. todo[h] = <<"emit">>
  BY AtPlan DEF Announce, TypeInv
<1>2. Tail(todo[h]) = <<>> /\ Len(todo[h]) = 1
  BY <1>1, PlanFacts
<1> QED
  BY <1>1, <1>2 DEF Announce, StepDone, Emit, Emits, EventOf, DebtEvent

LEMMA NotificationEffect ==
  ASSUME NEW n \in saving, StoreNotification(n) \/ DropNotification(n)
  PROVE  /\ saving' \subseteq saving
         /\ saving' \cup inbox' \subseteq saving \cup inbox
         /\ UNCHANGED <<ledger, todo, entry, seen, feed, unheard>>
BY DEF StoreNotification, DropNotification

-----------------------------------------------------------------------------
(* Types *)

LEMMA TypeInvInit == Init => TypeInv
BY DEF Init, TypeInv, LedgerTypeOK, Busy, Plans

LEMMA TypeInvTypes == TypeInv => TypeOK
<1>1. Plans \subseteq Seq({"ended", "read", "emit"})
  BY DEF Plans
<1> QED
  BY <1>1 DEF TypeInv, TypeOK

LEMMA BalanceInt ==
  ASSUME LedgerTypeOK, NEW c
  PROVE  Balance(c) \in Int
<1>1. EntriesOf(c) \in SUBSET DOMAIN ledger
  BY DEF EntriesOf
<1>2. IsFiniteSet(EntriesOf(c)) /\ \A j \in EntriesOf(c) : AmountsOf(ledger)[j] \in Int
  BY <1>1, LedgerTyped
<1> QED
  BY <1>1, <1>2, BalanceIsSum, SumOfInt DEF Balance

LEMMA TypeInvStep == TypeInv /\ [Next]_vars => TypeInv'
<1> SUFFICES ASSUME TypeInv, [Next]_vars PROVE TypeInv'
  OBVIOUS
<1>1. /\ <<>> \in Plans /\ <<"emit">> \in Plans \ {<<>>}
      /\ <<"read", "emit">> \in Plans \ {<<>>}
      /\ <<"ended", "read", "emit">> \in Plans \ {<<>>}
  BY DEF Plans
<1>2. ASSUME NEW h \in Handler, Commits(h) PROVE TypeInv'
  <2>1. /\ LedgerTypeOK'
        /\ DOMAIN ledger' = DOMAIN ledger \cup {NewEntry}
        /\ entry' = [entry EXCEPT ![h] = NewEntry]
        /\ UNCHANGED <<seen, feed, saving, inbox, unheard>>
    BY <1>2, CommitEffect
  <2>2. PICK plan \in {<<"ended", "read", "emit">>, <<"read", "emit">>} :
          todo' = [todo EXCEPT ![h] = plan]
    BY <1>2, CommitEffect
  <2>3. plan \in Plans \ {<<>>}
    BY <1>1
  <2>4. NewEntry \in Nat
    BY DEF TypeInv, LedgerTypeOK, NewEntry
  <2> QED
    BY <2>1, <2>2, <2>3, <2>4 DEF TypeInv, Busy
<1>3. ASSUME NEW h \in Handler, AnnounceEnd(h) PROVE TypeInv'
  <2>1. /\ todo[h] # <<>>
        /\ todo' = [todo EXCEPT ![h] = <<"read", "emit">>]
        /\ Emits("session.ended", entry[h], 0)
        /\ UNCHANGED <<ledger, entry, seen, saving, inbox, unheard>>
    BY <1>1, <1>3, EndedEffect
  <2>2. entry[h] \in Nat /\ 0 \in Int /\ "session.ended" \in DebtEvent \cup {"session.ended"}
    BY DEF TypeInv
  <2>3. feed' \in Seq(Event) /\ DOMAIN feed' = DOMAIN feed \cup {Len(feed) + 1}
    BY <2>1, <2>2, EmitEffect
  <2> QED
    BY <1>1, <2>1, <2>3 DEF TypeInv, Busy, LedgerTypeOK
<1>4. ASSUME NEW h \in Handler, ReadBalance(h) PROVE TypeInv'
  <2>1. /\ todo[h] # <<>>
        /\ todo' = [todo EXCEPT ![h] = <<"emit">>]
        /\ seen' = [seen EXCEPT ![h] = SeenBy(h)]
        /\ UNCHANGED <<ledger, entry, feed, saving, inbox, unheard>>
    BY <1>1, <1>4, ReadEffect
  <2>2. SeenBy(h) \in Int
    BY BalanceInt DEF SeenBy, TypeInv
  <2> QED
    BY <1>1, <2>1, <2>2 DEF TypeInv, Busy, LedgerTypeOK
<1>5. ASSUME NEW h \in Handler, Announce(h) PROVE TypeInv'
  <2> DEFINE name == EventOf(ledger[entry[h]].type)
  <2>1. /\ todo' = [todo EXCEPT ![h] = <<>>]
        /\ entry' = [entry EXCEPT ![h] = 0]
        /\ Emits(name, entry[h], seen[h])
        /\ name \in DebtEvent
        /\ seen' = [seen EXCEPT ![h] = 0]
        /\ saving' \subseteq saving \cup {Len(feed) + 1}
        /\ UNCHANGED <<ledger, inbox, unheard>>
    BY <1>5, AnnounceEffect
  <2> HIDE DEF name
  <2>2. entry[h] \in Nat /\ seen[h] \in Int
    BY DEF TypeInv
  <2>3. /\ feed' \in Seq(Event)
        /\ DOMAIN feed' = DOMAIN feed \cup {Len(feed) + 1}
    BY <2>1, <2>2, EmitEffect
  <2> QED
    BY <1>1, <2>1, <2>3 DEF TypeInv, Busy, LedgerTypeOK
<1>6. ASSUME NEW h \in Handler, QueryFails(h) PROVE TypeInv'
  <2>1. /\ todo[h] # <<>>
        /\ todo' = [todo EXCEPT ![h] = <<>>]
        /\ entry' = [entry EXCEPT ![h] = 0]
        /\ unheard' = unheard \cup {entry[h]}
        /\ UNCHANGED <<ledger, seen, feed, saving, inbox>>
    BY <1>1, <1>6, FailEffect
  <2> QED
    BY <1>1, <2>1 DEF TypeInv, Busy, LedgerTypeOK
<1>7. ASSUME NEW n \in saving, StoreNotification(n) \/ DropNotification(n) PROVE TypeInv'
  BY <1>7, NotificationEffect DEF TypeInv, Busy, LedgerTypeOK
<1>8. CASE Crash
  <2>1. unheard' \subseteq DOMAIN ledger
    BY <1>8 DEF Crash, TypeInv, Busy
  <2> QED
    BY <1>1, <1>8, <2>1 DEF Crash, TypeInv, Busy, LedgerTypeOK
<1>9. CASE UNCHANGED vars
  BY <1>9 DEF vars, TypeInv, Busy, LedgerTypeOK
<1> QED
  BY <1>2, <1>3, <1>4, <1>5, <1>6, <1>7, <1>8, <1>9 DEF Next, Proceed, Commits

-----------------------------------------------------------------------------
(* Where an entry is *)

IsDebt(e) == e.event \in DebtEvent

\* AnnouncedOnce without its counting: announced, in hand and given up exclude
\* each other, nothing is in two hands or announced twice, and nothing is lost.
Places ==
  /\ \A g, h \in Handler : Busy(g) /\ Busy(h) /\ entry[g] = entry[h] => g = h
  /\ \A m, n \in DOMAIN feed :
       IsDebt(feed[m]) /\ IsDebt(feed[n]) /\ feed[m].entry = feed[n].entry => m = n
  /\ \A n \in DOMAIN feed : feed[n].entry \in DOMAIN ledger
  /\ \A n \in DOMAIN feed : IsDebt(feed[n]) => feed[n].entry \notin unheard
  /\ \A n \in DOMAIN feed, h \in Handler :
       IsDebt(feed[n]) /\ Busy(h) => feed[n].entry # entry[h]
  /\ \A h \in Handler : Busy(h) => entry[h] \notin unheard
  /\ \A j \in DOMAIN ledger :
       \/ j \in unheard
       \/ \E h \in Handler : Busy(h) /\ entry[h] = j
       \/ \E n \in DOMAIN feed : IsDebt(feed[n]) /\ feed[n].entry = j

LEMMA PlacesStep == TypeInv /\ Places /\ [Next]_vars => Places'
<1> SUFFICES ASSUME TypeInv, Places, [Next]_vars PROVE Places'
  OBVIOUS
<1>1. /\ <<"emit">> # <<>> /\ <<"read", "emit">> # <<>>
      /\ <<"ended", "read", "emit">> # <<>>
  OBVIOUS
<1>2. ASSUME NEW h \in Handler, Commits(h) PROVE Places'
  <2>1. /\ DOMAIN ledger' = DOMAIN ledger \cup {NewEntry}
        /\ NewEntry \notin DOMAIN ledger
        /\ todo[h] = <<>>
        /\ entry' = [entry EXCEPT ![h] = NewEntry]
        /\ UNCHANGED <<seen, feed, saving, inbox, unheard>>
    BY <1>2, CommitEffect
  <2>2. PICK plan \in {<<"ended", "read", "emit">>, <<"read", "emit">>} :
          todo' = [todo EXCEPT ![h] = plan]
    BY <1>2, CommitEffect
  <2>3. \A g \in Handler : Busy(g)' <=> g = h \/ Busy(g)
    BY <1>1, <2>2 DEF Busy, TypeInv
  <2>4. \A g \in Handler : entry'[g] = IF g = h THEN NewEntry ELSE entry[g]
    BY <2>1 DEF TypeInv
  <2>5. ~Busy(h) /\ \A g \in Handler : Busy(g) => entry[g] \in DOMAIN ledger
    BY <2>1 DEF TypeInv, Busy
  <2>6. unheard \subseteq DOMAIN ledger
    BY DEF TypeInv
  <2> QED
    BY <2>1, <2>3, <2>4, <2>5, <2>6 DEF Places
<1>3. ASSUME NEW h \in Handler, AnnounceEnd(h) PROVE Places'
  <2>1. /\ todo[h] # <<>>
        /\ todo' = [todo EXCEPT ![h] = <<"read", "emit">>]
        /\ Emits("session.ended", entry[h], 0)
        /\ UNCHANGED <<ledger, entry, seen, saving, inbox, unheard>>
    BY <1>1, <1>3, EndedEffect
  <2>2. entry[h] \in Nat /\ 0 \in Int /\ "session.ended" \in DebtEvent \cup {"session.ended"}
    BY DEF TypeInv
  <2>3. /\ DOMAIN feed' = DOMAIN feed \cup {Len(feed) + 1}
        /\ Len(feed) + 1 \notin DOMAIN feed
        /\ \A n \in DOMAIN feed : feed'[n] = feed[n]
        /\ feed'[Len(feed) + 1].event = "session.ended"
        /\ feed'[Len(feed) + 1].entry = entry[h]
    BY <2>1, <2>2, EmitEffect
  <2>4. \A g \in Handler : Busy(g)' <=> Busy(g)
    BY <1>1, <2>1 DEF Busy, TypeInv
  <2>5. ~IsDebt(feed'[Len(feed) + 1])
    BY <2>3 DEF IsDebt, DebtEvent
  <2>6. entry[h] \in DOMAIN ledger
    BY <2>1 DEF TypeInv, Busy
  <2> QED
    BY <2>1, <2>3, <2>4, <2>5, <2>6 DEF Places
<1>4. ASSUME NEW h \in Handler, ReadBalance(h) PROVE Places'
  <2>1. /\ todo[h] # <<>>
        /\ todo' = [todo EXCEPT ![h] = <<"emit">>]
        /\ UNCHANGED <<ledger, entry, feed, unheard>>
    BY <1>1, <1>4, ReadEffect
  <2>2. \A g \in Handler : Busy(g)' <=> Busy(g)
    BY <1>1, <2>1 DEF Busy, TypeInv
  <2> QED
    BY <2>1, <2>2 DEF Places
<1>5. ASSUME NEW h \in Handler, Announce(h) PROVE Places'
  <2> DEFINE name == EventOf(ledger[entry[h]].type)
  <2>1. /\ todo[h] # <<>>
        /\ todo' = [todo EXCEPT ![h] = <<>>]
        /\ entry' = [entry EXCEPT ![h] = 0]
        /\ Emits(name, entry[h], seen[h])
        /\ name \in DebtEvent
        /\ UNCHANGED <<ledger, unheard>>
    BY <1>1, <1>5, AnnounceEffect
  <2> HIDE DEF name
  <2>2. entry[h] \in Nat /\ seen[h] \in Int
    BY DEF TypeInv
  <2>3. /\ DOMAIN feed' = DOMAIN feed \cup {Len(feed) + 1}
        /\ Len(feed) + 1 \notin DOMAIN feed
        /\ \A n \in DOMAIN feed : feed'[n] = feed[n]
        /\ feed'[Len(feed) + 1].event = name
        /\ feed'[Len(feed) + 1].entry = entry[h]
    BY <2>1, <2>2, EmitEffect
  <2>4. \A g \in Handler : Busy(g)' <=> Busy(g) /\ g # h
    BY <1>1, <2>1 DEF Busy, TypeInv
  <2>5. \A g \in Handler : g # h => entry'[g] = entry[g]
    BY <2>1 DEF TypeInv
  <2>6. IsDebt(feed'[Len(feed) + 1])
    BY <2>1, <2>3 DEF IsDebt
  <2>7. Busy(h) /\ entry[h] \in DOMAIN ledger
    BY <2>1 DEF TypeInv, Busy
  <2> QED
    BY <2>1, <2>3, <2>4, <2>5, <2>6, <2>7 DEF Places
<1>6. ASSUME NEW h \in Handler, QueryFails(h) PROVE Places'
  <2>1. /\ todo[h] # <<>>
        /\ todo' = [todo EXCEPT ![h] = <<>>]
        /\ entry' = [entry EXCEPT ![h] = 0]
        /\ unheard' = unheard \cup {entry[h]}
        /\ UNCHANGED <<ledger, feed>>
    BY <1>1, <1>6, FailEffect
  <2>2. \A g \in Handler : Busy(g)' <=> Busy(g) /\ g # h
    BY <1>1, <2>1 DEF Busy, TypeInv
  <2>3. Busy(h) /\ \A g \in Handler : g # h => entry'[g] = entry[g]
    BY <2>1 DEF TypeInv, Busy
  <2> QED
    BY <2>1, <2>2, <2>3 DEF Places
<1>7. ASSUME UNCHANGED <<ledger, todo, entry, feed, unheard>> PROVE Places'
  BY <1>7 DEF Places, Busy
<1>8. CASE Crash
  <2>1. /\ \A g \in Handler : ~Busy(g)'
        /\ unheard' = unheard \cup {entry[g] : g \in {f \in Handler : Busy(f)}}
        /\ UNCHANGED <<ledger, feed>>
    BY <1>8 DEF Crash, Busy
  <2> QED
    BY <2>1 DEF Places
<1> QED
  BY <1>2, <1>3, <1>4, <1>5, <1>6, <1>7, <1>8, NotificationEffect
  DEF Next, Proceed, Commits, vars

-----------------------------------------------------------------------------
(* What an event reports *)

\* b was the balance of the customer of entry j at a commit from j's own on.
BalanceSince(j, b) ==
  \E k \in j .. Len(ledger) : b = BalanceAt(ledger[j].customer, k)

Reports ==
  /\ \A n \in DOMAIN feed : IsDebt(feed[n]) => BalanceSince(feed[n].entry, feed[n].balance)
  /\ \A h \in Handler : todo[h] = <<"emit">> => BalanceSince(entry[h], seen[h])

\* A session's end is announced between its commit and its balance query.
EndAnnounced(j) ==
  \E m \in DOMAIN feed : feed[m].event = "session.ended" /\ feed[m].entry = j

EndsFirst ==
  /\ EndBeforeDebt
  /\ \A h \in Handler :
       /\ todo[h] \in {<<"read", "emit">>, <<"emit">>}
       /\ ledger[entry[h]].session # 0
       => EndAnnounced(entry[h])

Alarms ==
  /\ \A n \in saving \cup inbox : feed[n].event = "debt.created"
  /\ \A n \in DOMAIN feed :
       feed[n].event = "debt.created" => ledger[feed[n].entry].type = "DEBT_ADD"

LEMMA BalanceAtIsKept ==
  ASSUME LedgerTypeOK, LedgerTypeOK',
         DOMAIN ledger \subseteq DOMAIN ledger',
         \A j \in DOMAIN ledger : ledger'[j] = ledger[j],
         NEW c, NEW k \in 1 .. Len(ledger)
  PROVE  BalanceAt(c, k)' = BalanceAt(c, k)
<1> DEFINE S == {j \in EntriesOf(c) : j <= k}
<1>1. /\ Len(ledger) \in Nat /\ DOMAIN ledger = 1 .. Len(ledger)
      /\ Len(ledger') \in Nat /\ DOMAIN ledger' = 1 .. Len(ledger')
  BY DEF LedgerTypeOK
<1>2. S \in SUBSET DOMAIN ledger /\ S' \in SUBSET DOMAIN ledger'
  BY DEF EntriesOf
<1>3. S' = S
  BY <1>1 DEF EntriesOf
<1>4. BalanceAt(c, k) = SumOf(AmountsOf(ledger), S)
  BY <1>2, BalanceIsSum DEF BalanceAt
<1>5. BalanceAt(c, k)' = SumOf(AmountsOf(ledger'), S')
  <2>1. MapThenSumSet(AmountOf, S)' = SumOf(AmountsOf(ledger'), S')
    BY <1>2, NewBalanceIsSum
  <2> QED
    BY <2>1 DEF BalanceAt
<1> HIDE DEF S
<1>6. SumOf(AmountsOf(ledger'), S) = SumOf(AmountsOf(ledger), S)
  BY <1>2, SumIsKept
<1> QED
  BY <1>3, <1>4, <1>5, <1>6

LEMMA BalanceAtLast ==
  ASSUME LedgerTypeOK, NEW c, NEW k, EntriesOf(c) \subseteq 1 .. k, k \in Nat
  PROVE  BalanceAt(c, k) = Balance(c)
<1>1. {j \in EntriesOf(c) : j <= k} = EntriesOf(c)
  OBVIOUS
<1> QED
  BY <1>1 DEF BalanceAt, Balance

LEMMA SinceIsKept ==
  ASSUME LedgerTypeOK, LedgerTypeOK',
         DOMAIN ledger \subseteq DOMAIN ledger',
         \A j \in DOMAIN ledger : ledger'[j] = ledger[j],
         NEW j \in DOMAIN ledger, NEW b, BalanceSince(j, b)
  PROVE  BalanceSince(j, b)'
<1>1. /\ Len(ledger) \in Nat /\ DOMAIN ledger = 1 .. Len(ledger)
      /\ Len(ledger') \in Nat /\ DOMAIN ledger' = 1 .. Len(ledger')
      /\ Len(ledger) <= Len(ledger')
  BY DEF LedgerTypeOK
<1>2. PICK c : c = ledger[j].customer
  OBVIOUS
<1>3. PICK k \in j .. Len(ledger) : b = BalanceAt(c, k)
  BY <1>2 DEF BalanceSince
<1>4. k \in 1 .. Len(ledger) /\ k \in j .. Len(ledger')
  BY <1>1
<1>5. BalanceAt(c, k)' = BalanceAt(c, k)
  BY <1>4, BalanceAtIsKept
<1> QED
  BY <1>2, <1>3, <1>4, <1>5 DEF BalanceSince

LEMMA ReportsStep == TypeInv /\ Places /\ Reports /\ [Next]_vars => Reports'
<1> SUFFICES ASSUME TypeInv, Places, Reports, [Next]_vars PROVE Reports'
  OBVIOUS
<1> USE PlanFacts
<1>1. /\ LedgerTypeOK
      /\ \A n \in DOMAIN feed : feed[n].entry \in DOMAIN ledger
      /\ \A g \in Handler : todo[g] = <<"emit">> => entry[g] \in DOMAIN ledger
  <2>1. <<"emit">> # <<>>
    OBVIOUS
  <2> QED
    BY <2>1 DEF TypeInv, Places, Busy
<1>9. ASSUME UNCHANGED ledger
      PROVE  \A j \in DOMAIN ledger : \A b : BalanceSince(j, b) => BalanceSince(j, b)'
  <2>1. LedgerTypeOK'
    BY <1>1, <1>9 DEF LedgerTypeOK
  <2> QED
    BY <1>1, <1>9, <2>1, SinceIsKept
<1>2. ASSUME NEW h \in Handler, Commits(h) PROVE Reports'
  <2>1. /\ LedgerTypeOK'
        /\ DOMAIN ledger \subseteq DOMAIN ledger'
        /\ \A j \in DOMAIN ledger : ledger'[j] = ledger[j]
        /\ entry' = [entry EXCEPT ![h] = NewEntry]
        /\ UNCHANGED <<seen, feed, saving, inbox, unheard>>
    BY <1>2, CommitEffect
  <2>2. PICK plan \in {<<"ended", "read", "emit">>, <<"read", "emit">>} :
          todo' = [todo EXCEPT ![h] = plan]
    BY <1>2, CommitEffect
  <2>3. \A j \in DOMAIN ledger : \A b : BalanceSince(j, b) => BalanceSince(j, b)'
    BY <1>1, <2>1, SinceIsKept
  <2>4. plan # <<"emit">>
    OBVIOUS
  <2>5. \A g \in Handler : todo'[g] = <<"emit">> => g # h /\ todo[g] = <<"emit">>
    BY <2>2, <2>4 DEF TypeInv
  <2>6. \A g \in Handler : g # h => entry'[g] = entry[g]
    BY <2>1 DEF TypeInv
  <2> QED
    BY <1>1, <2>1, <2>3, <2>5, <2>6 DEF Reports
<1>3. ASSUME NEW h \in Handler, AnnounceEnd(h) PROVE Reports'
  <2>1. /\ todo' = [todo EXCEPT ![h] = <<"read", "emit">>]
        /\ Emits("session.ended", entry[h], 0)
        /\ UNCHANGED <<ledger, entry, seen, saving, inbox, unheard>>
    BY <1>3, EndedEffect
  <2>2. entry[h] \in Nat /\ 0 \in Int /\ "session.ended" \in DebtEvent \cup {"session.ended"}
    BY DEF TypeInv
  <2>3. /\ DOMAIN feed' = DOMAIN feed \cup {Len(feed) + 1}
        /\ \A n \in DOMAIN feed : feed'[n] = feed[n]
        /\ ~IsDebt(feed'[Len(feed) + 1])
    BY <2>1, <2>2, EmitEffect DEF IsDebt, DebtEvent
  <2>4. \A g \in Handler : todo'[g] = <<"emit">> => todo[g] = <<"emit">>
    BY <2>1 DEF TypeInv
  <2> QED
    BY <1>1, <1>9, <2>1, <2>3, <2>4 DEF Reports
<1>4. ASSUME NEW h \in Handler, ReadBalance(h) PROVE Reports'
  <2>1. /\ todo[h] = <<"read", "emit">>
        /\ todo' = [todo EXCEPT ![h] = <<"emit">>]
        /\ seen' = [seen EXCEPT ![h] = SeenBy(h)]
        /\ UNCHANGED <<ledger, entry, feed, saving, inbox, unheard>>
    BY <1>4, ReadEffect
  <2>5. entry[h] \in DOMAIN ledger
    <3>1. todo[h] # <<>>
      BY <2>1
    <3> QED
      BY <3>1 DEF TypeInv, Busy
  <2>2. BalanceSince(entry[h], SeenBy(h))
    <3>2. Len(ledger) \in entry[h] .. Len(ledger) /\ Len(ledger) \in Nat
      BY <1>1, <2>5, LedgerTyped
    <3>3. EntriesOf(ledger[entry[h]].customer) \subseteq 1 .. Len(ledger)
      BY <1>1, LedgerTyped DEF EntriesOf
    <3>4. BalanceAt(ledger[entry[h]].customer, Len(ledger)) = SeenBy(h)
      BY <1>1, <3>2, <3>3, BalanceAtLast DEF SeenBy
    <3> QED
      BY <3>2, <3>4 DEF BalanceSince
  <2>3. \A g \in Handler : g # h => todo'[g] = todo[g] /\ seen'[g] = seen[g]
    BY <2>1 DEF TypeInv
  <2>4. seen'[h] = SeenBy(h)
    BY <2>1 DEF TypeInv
  <2> QED
    BY <1>1, <1>9, <2>1, <2>2, <2>3, <2>4, <2>5 DEF Reports
<1>5. ASSUME NEW h \in Handler, Announce(h) PROVE Reports'
  <2> DEFINE name == EventOf(ledger[entry[h]].type)
  <2>1. /\ todo[h] = <<"emit">>
        /\ todo' = [todo EXCEPT ![h] = <<>>]
        /\ entry' = [entry EXCEPT ![h] = 0]
        /\ Emits(name, entry[h], seen[h])
        /\ name \in DebtEvent
        /\ seen' = [seen EXCEPT ![h] = 0]
        /\ UNCHANGED <<ledger, inbox, unheard>>
    BY <1>5, AnnounceEffect
  <2> HIDE DEF name
  <2>2. entry[h] \in Nat /\ seen[h] \in Int
    BY DEF TypeInv
  <2>3. /\ DOMAIN feed' = DOMAIN feed \cup {Len(feed) + 1}
        /\ \A n \in DOMAIN feed : feed'[n] = feed[n]
        /\ feed'[Len(feed) + 1].entry = entry[h]
        /\ feed'[Len(feed) + 1].balance = seen[h]
    BY <2>1, <2>2, EmitEffect
  <2>4. <<>> # <<"emit">>
    OBVIOUS
  <2>5. \A g \in Handler :
          todo'[g] = <<"emit">> =>
            todo[g] = <<"emit">> /\ entry'[g] = entry[g] /\ seen'[g] = seen[g]
    BY <2>1, <2>4 DEF TypeInv
  <2>6. BalanceSince(entry[h], seen[h])
    BY <2>1 DEF Reports
  <2> QED
    BY <1>1, <1>9, <2>1, <2>3, <2>5, <2>6 DEF Reports
<1>6. ASSUME NEW h \in Handler, QueryFails(h) PROVE Reports'
  <2>1. /\ todo' = [todo EXCEPT ![h] = <<>>]
        /\ entry' = [entry EXCEPT ![h] = 0]
        /\ UNCHANGED <<ledger, seen, feed, saving, inbox>>
    BY <1>6, FailEffect
  <2>2. <<>> # <<"emit">>
    OBVIOUS
  <2>3. \A g \in Handler :
          todo'[g] = <<"emit">> => todo[g] = <<"emit">> /\ entry'[g] = entry[g]
    BY <2>1, <2>2 DEF TypeInv
  <2> QED
    BY <1>1, <1>9, <2>1, <2>3 DEF Reports
<1>7. ASSUME UNCHANGED <<ledger, todo, entry, seen, feed>> PROVE Reports'
  BY <1>1, <1>7, <1>9 DEF Reports
<1>8. CASE Crash
  <2>1. \A g \in Handler : todo'[g] # <<"emit">>
    BY <1>8 DEF Crash
  <2> QED
    BY <1>1, <1>8, <1>9, <2>1 DEF Reports, Crash
<1> QED
  BY <1>2, <1>3, <1>4, <1>5, <1>6, <1>7, <1>8, NotificationEffect
  DEF Next, Proceed, Commits, vars

LEMMA EndsFirstStep == TypeInv /\ Places /\ EndsFirst /\ [Next]_vars => EndsFirst'
<1> SUFFICES ASSUME TypeInv, Places, EndsFirst, [Next]_vars PROVE EndsFirst'
  OBVIOUS
<1> DEFINE Told(p) == p \in {<<"read", "emit">>, <<"emit">>}
<1>1. /\ Told(<<"read", "emit">>) /\ Told(<<"emit">>)
      /\ ~Told(<<>>) /\ ~Told(<<"ended", "read", "emit">>)
  BY PlanFacts
<1> HIDE DEF Told
<1>2. EndsFirst <=>
        /\ EndBeforeDebt
        /\ \A h \in Handler :
             Told(todo[h]) /\ ledger[entry[h]].session # 0 => EndAnnounced(entry[h])
  BY DEF EndsFirst, Told
<1>3. /\ EndBeforeDebt'
      /\ \A h \in Handler : \A j :
           Told(todo'[h]) /\ j = entry'[h] /\ ledger'[j].session # 0 => EndAnnounced(j)'
      => EndsFirst'
  BY DEF EndsFirst, EndAnnounced, Told
<1>4. /\ \A n \in DOMAIN feed : feed[n].entry \in DOMAIN ledger
      /\ \A g \in Handler : Told(todo[g]) => entry[g] \in DOMAIN ledger
      /\ Len(feed) \in Nat /\ DOMAIN feed = 1 .. Len(feed)
  BY <1>1 DEF TypeInv, Places, Busy
<1>5. ASSUME UNCHANGED feed, DOMAIN ledger \subseteq DOMAIN ledger',
             \A j \in DOMAIN ledger : ledger'[j] = ledger[j]
      PROVE  EndBeforeDebt' /\ \A j : EndAnnounced(j) => EndAnnounced(j)'
  BY <1>2, <1>4, <1>5 DEF EndBeforeDebt, EndAnnounced
<1>6. ASSUME NEW h \in Handler, Commits(h) PROVE EndsFirst'
  <2>1. /\ DOMAIN ledger' = DOMAIN ledger \cup {NewEntry}
        /\ \A j \in DOMAIN ledger : ledger'[j] = ledger[j]
        /\ entry' = [entry EXCEPT ![h] = NewEntry]
        /\ UNCHANGED <<seen, feed, saving, inbox, unheard>>
    BY <1>6, CommitEffect
  <2>2. PICK plan \in {<<"ended", "read", "emit">>, <<"read", "emit">>} :
          /\ todo' = [todo EXCEPT ![h] = plan]
          /\ plan = <<"read", "emit">> => ledger'[NewEntry].session = 0
    BY <1>6, CommitEffect
  <2>3. Told(plan) => ledger'[NewEntry].session = 0
    BY <1>1, <2>2
  <2>4. todo'[h] = plan /\ entry'[h] = NewEntry
    BY <2>1, <2>2 DEF TypeInv
  <2>5. \A g \in Handler : g # h => todo'[g] = todo[g] /\ entry'[g] = entry[g]
    BY <2>1, <2>2 DEF TypeInv
  <2> QED
    BY <1>2, <1>3, <1>4, <1>5, <2>1, <2>3, <2>4, <2>5
<1>7. ASSUME NEW h \in Handler, AnnounceEnd(h) PROVE EndsFirst'
  <2>1. /\ todo[h] # <<>>
        /\ todo' = [todo EXCEPT ![h] = <<"read", "emit">>]
        /\ Emits("session.ended", entry[h], 0)
        /\ UNCHANGED <<ledger, entry, seen, saving, inbox, unheard>>
    BY <1>7, EndedEffect, PlanFacts
  <2>2. entry[h] \in Nat /\ 0 \in Int /\ "session.ended" \in DebtEvent \cup {"session.ended"}
    BY DEF TypeInv
  <2>3. /\ DOMAIN feed' = DOMAIN feed \cup {Len(feed) + 1}
        /\ \A n \in DOMAIN feed : feed'[n] = feed[n]
        /\ feed'[Len(feed) + 1].event = "session.ended"
        /\ feed'[Len(feed) + 1].entry = entry[h]
    BY <2>1, <2>2, EmitEffect
  <2>4. EndBeforeDebt'
    BY <1>2, <1>4, <2>1, <2>3 DEF EndBeforeDebt, DebtEvent
  <2>5. \A j : EndAnnounced(j) \/ j = entry[h] => EndAnnounced(j)'
    BY <2>3 DEF EndAnnounced
  <2>6. \A g \in Handler : Told(todo'[g]) => g = h \/ Told(todo[g])
    BY <2>1 DEF TypeInv
  <2> QED
    BY <1>2, <1>3, <2>1, <2>4, <2>5, <2>6
<1>8. ASSUME NEW h \in Handler, ReadBalance(h) PROVE EndsFirst'
  <2>1. /\ todo[h] = <<"read", "emit">>
        /\ todo' = [todo EXCEPT ![h] = <<"emit">>]
        /\ UNCHANGED <<ledger, entry, feed>>
    BY <1>8, ReadEffect
  <2>2. \A g \in Handler : Told(todo'[g]) => Told(todo[g])
    BY <1>1, <2>1 DEF TypeInv
  <2> QED
    BY <1>2, <1>3, <1>5, <2>1, <2>2
<1>9. ASSUME NEW h \in Handler, Announce(h) PROVE EndsFirst'
  <2> DEFINE name == EventOf(ledger[entry[h]].type)
  <2>1. /\ todo[h] = <<"emit">>
        /\ todo' = [todo EXCEPT ![h] = <<>>]
        /\ entry' = [entry EXCEPT ![h] = 0]
        /\ Emits(name, entry[h], seen[h])
        /\ name \in DebtEvent
        /\ UNCHANGED <<ledger, inbox, unheard>>
    BY <1>9, AnnounceEffect
  <2> HIDE DEF name
  <2>2. entry[h] \in Nat /\ seen[h] \in Int
    BY DEF TypeInv
  <2>3. /\ DOMAIN feed' = DOMAIN feed \cup {Len(feed) + 1}
        /\ \A n \in DOMAIN feed : feed'[n] = feed[n]
        /\ feed'[Len(feed) + 1].entry = entry[h]
    BY <2>1, <2>2, EmitEffect
  <2>4. ledger[entry[h]].session # 0 => EndAnnounced(entry[h])
    BY <1>1, <1>2, <2>1
  <2>5. EndBeforeDebt'
    BY <1>2, <1>4, <2>1, <2>3, <2>4 DEF EndBeforeDebt, EndAnnounced
  <2>6. \A j : EndAnnounced(j) => EndAnnounced(j)'
    BY <2>3 DEF EndAnnounced
  <2>7. \A g \in Handler :
          Told(todo'[g]) => Told(todo[g]) /\ entry'[g] = entry[g]
    BY <1>1, <2>1 DEF TypeInv
  <2> QED
    BY <1>2, <1>3, <2>1, <2>5, <2>6, <2>7
<1>10. ASSUME NEW h \in Handler, QueryFails(h) PROVE EndsFirst'
  <2>1. /\ todo' = [todo EXCEPT ![h] = <<>>]
        /\ entry' = [entry EXCEPT ![h] = 0]
        /\ UNCHANGED <<ledger, seen, feed, saving, inbox>>
    BY <1>10, FailEffect
  <2>2. \A g \in Handler :
          Told(todo'[g]) => Told(todo[g]) /\ entry'[g] = entry[g]
    BY <1>1, <2>1 DEF TypeInv
  <2> QED
    BY <1>2, <1>3, <1>5, <2>1, <2>2
<1>11. ASSUME UNCHANGED <<ledger, todo, entry, feed>> PROVE EndsFirst'
  BY <1>2, <1>3, <1>5, <1>11
<1>12. CASE Crash
  <2>1. \A g \in Handler : ~Told(todo'[g])
    BY <1>1, <1>12 DEF Crash
  <2>2. UNCHANGED <<ledger, feed>>
    BY <1>12 DEF Crash
  <2> QED
    BY <1>3, <1>5, <2>1, <2>2
<1> QED
  BY <1>6, <1>7, <1>8, <1>9, <1>10, <1>11, <1>12, NotificationEffect
  DEF Next, Proceed, Commits, vars

LEMMA AlarmsStep == TypeInv /\ Places /\ Alarms /\ [Next]_vars => Alarms'
<1> SUFFICES ASSUME TypeInv, Places, Alarms, [Next]_vars PROVE Alarms'
  OBVIOUS
<1>1. /\ saving \cup inbox \subseteq DOMAIN feed
      /\ \A n \in DOMAIN feed : feed[n].entry \in DOMAIN ledger
  BY DEF TypeInv, Places
<1>2. ASSUME NEW h \in Handler, Commits(h) PROVE Alarms'
  <2>1. /\ \A j \in DOMAIN ledger : ledger'[j] = ledger[j]
        /\ UNCHANGED <<seen, feed, saving, inbox, unheard>>
    BY <1>2, CommitEffect
  <2> QED
    BY <1>1, <2>1 DEF Alarms
<1>3. ASSUME NEW h \in Handler, AnnounceEnd(h) PROVE Alarms'
  <2>1. /\ Emits("session.ended", entry[h], 0)
        /\ UNCHANGED <<ledger, entry, seen, saving, inbox, unheard>>
    BY <1>3, EndedEffect
  <2>2. entry[h] \in Nat /\ 0 \in Int /\ "session.ended" \in DebtEvent \cup {"session.ended"}
    BY DEF TypeInv
  <2>3. /\ DOMAIN feed' = DOMAIN feed \cup {Len(feed) + 1}
        /\ \A n \in DOMAIN feed : feed'[n] = feed[n]
        /\ feed'[Len(feed) + 1].event = "session.ended"
    BY <2>1, <2>2, EmitEffect
  <2> QED
    BY <1>1, <2>1, <2>3 DEF Alarms
<1>4. ASSUME NEW h \in Handler, Announce(h) PROVE Alarms'
  <2> DEFINE name == EventOf(ledger[entry[h]].type)
  <2>1. /\ Emits(name, entry[h], seen[h])
        /\ name \in DebtEvent
        /\ name = "debt.created" => ledger[entry[h]].type = "DEBT_ADD"
        /\ saving' = IF name = "debt.created" THEN saving \cup {Len(feed) + 1} ELSE saving
        /\ UNCHANGED <<ledger, inbox, unheard>>
    BY <1>4, AnnounceEffect
  <2> HIDE DEF name
  <2>2. entry[h] \in Nat /\ seen[h] \in Int
    BY DEF TypeInv
  <2>3. /\ DOMAIN feed' = DOMAIN feed \cup {Len(feed) + 1}
        /\ \A n \in DOMAIN feed : feed'[n] = feed[n]
        /\ feed'[Len(feed) + 1].event = name
        /\ feed'[Len(feed) + 1].entry = entry[h]
    BY <2>1, <2>2, EmitEffect
  <2> QED
    BY <1>1, <2>1, <2>3 DEF Alarms
<1>5. ASSUME UNCHANGED <<ledger, feed>>, saving' \cup inbox' \subseteq saving \cup inbox
      PROVE  Alarms'
  BY <1>5 DEF Alarms
<1> QED
  BY <1>2, <1>3, <1>4, <1>5, NotificationEffect, ReadEffect, FailEffect
  DEF Next, Proceed, Commits, Crash, vars

-----------------------------------------------------------------------------
(* The invariants of the specification *)

Inductive == TypeInv /\ Places /\ Reports /\ EndsFirst /\ Alarms

LEMMA InitInductive == Init => Inductive
<1> SUFFICES ASSUME Init PROVE Inductive
  OBVIOUS
<1>1. DOMAIN feed = {} /\ DOMAIN ledger = {} /\ saving \cup inbox = {}
  BY DEF Init
<1>2. /\ \A h \in Handler : ~Busy(h)
      /\ \A h \in Handler : todo[h] \notin {<<"read", "emit">>, <<"emit">>}
  BY DEF Init, Busy
<1> QED
  BY <1>1, <1>2, TypeInvInit
  DEF Inductive, Places, Reports, EndsFirst, EndBeforeDebt, Alarms

LEMMA StaysInductive == Spec => []Inductive
<1>1. Inductive /\ [Next]_vars => Inductive'
  BY TypeInvStep, PlacesStep, ReportsStep, EndsFirstStep, AlarmsStep DEF Inductive
<1> QED
  BY InitInductive, <1>1, PTL DEF Spec

\* A handler is busy with a committed entry as long as it has something left
\* to do (debt.service.ts:66-77, 123-141, sessions.service.ts:224-232).
THEOREM AnnouncementTypes == Spec => []TypeOK
<1>1. Inductive => TypeOK
  BY TypeInvTypes DEF Inductive
<1> QED
  BY <1>1, StaysInductive, PTL

LEMMA PlacesCount == TypeInv /\ Places => AnnouncedOnce
<1> SUFFICES ASSUME TypeInv, Places, NEW j \in DOMAIN ledger
             PROVE  Cardinality(Announcements(j))
                      + Cardinality({h \in Handler : Busy(h) /\ entry[h] = j})
                      + Cardinality(unheard \cap {j}) = 1
  BY DEF AnnouncedOnce
<1> DEFINE hands == {h \in Handler : Busy(h) /\ entry[h] = j}
<1>1. Cardinality({}) = 0 /\ \A x : Cardinality({x}) = 1
  BY FS_EmptySet, FS_Singleton
<1>2. Announcements(j) = {n \in DOMAIN feed : IsDebt(feed[n]) /\ feed[n].entry = j}
  BY DEF Announcements, IsDebt
<1>3. CASE j \in unheard
  <2>1. Announcements(j) = {} /\ hands = {} /\ unheard \cap {j} = {j}
    BY <1>2, <1>3 DEF Places
  <2> QED
    BY <1>1, <2>1
<1>4. CASE \E h \in Handler : Busy(h) /\ entry[h] = j
  <2>1. PICK h \in Handler : Busy(h) /\ entry[h] = j
    BY <1>4
  <2>2. Announcements(j) = {} /\ hands = {h} /\ unheard \cap {j} = {}
    BY <1>2, <2>1 DEF Places
  <2>3. Cardinality({h}) = 1
    BY <1>1
  <2>4. /\ Cardinality(Announcements(j)) = 0
        /\ Cardinality(hands) = 1
        /\ Cardinality(unheard \cap {j}) = 0
    BY <1>1, <2>2, <2>3
  <2> QED
    BY <2>4
<1>5. CASE \E n \in DOMAIN feed : IsDebt(feed[n]) /\ feed[n].entry = j
  <2>1. PICK n \in DOMAIN feed : IsDebt(feed[n]) /\ feed[n].entry = j
    BY <1>5
  <2>2. Announcements(j) = {n} /\ hands = {} /\ unheard \cap {j} = {}
    BY <1>2, <2>1 DEF Places
  <2> QED
    BY <1>1, <2>2
<1> QED
  BY <1>3, <1>4, <1>5 DEF Places

\* Whatever handlers interleave, fail or die with the process: a committed entry
\* is announced once, still in one handler's hands, or given up with it
\* (debt.service.ts:66, 136-141).
THEOREM EachEntryAnnouncedOnce == Spec => []AnnouncedOnce
<1>1. Inductive => AnnouncedOnce
  BY PlacesCount DEF Inductive
<1> QED
  BY <1>1, StaysInductive, PTL

\* An announced balance was the customer's balance at some moment after the
\* announced entry's commit (sessions.service.ts:228-232).
THEOREM BalancesAreNotOlder == Spec => []AnnouncedAfterCommit
<1>1. Inductive => AnnouncedAfterCommit
  BY DEF Inductive, Reports, AnnouncedAfterCommit, BalanceSince, IsDebt
<1> QED
  BY <1>1, StaysInductive, PTL

LEMMA LastEntry ==
  ASSUME LedgerTypeOK, NEW c, EntriesOf(c) # {}
  PROVE  \E j \in EntriesOf(c) : \A k \in EntriesOf(c) : k <= j
<1> DEFINE Ages == {Len(ledger) - k : k \in EntriesOf(c)}
<1>1. Len(ledger) \in Nat /\ EntriesOf(c) \subseteq 1 .. Len(ledger)
  BY LedgerTyped DEF EntriesOf
<1>2. Ages \in SUBSET Nat /\ Ages # {}
  BY <1>1
<1>3. PICK m \in Ages : \A k \in Ages : m <= k
  BY <1>2, LeastNatural
<1>4. PICK j \in EntriesOf(c) : m = Len(ledger) - j
  BY <1>3
<1>5. ASSUME NEW k \in EntriesOf(c) PROVE k <= j
  <2>1. Len(ledger) - k \in Ages
    OBVIOUS
  <2> QED
    BY <1>1, <1>3, <1>4, <2>1, m <= Len(ledger) - k, j \in Nat, k \in Nat
<1> QED
  BY <1>5

LEMMA LastAnnounced == TypeInv /\ Places /\ Reports => CurrentBalanceIsAnnounced
<1> SUFFICES ASSUME TypeInv, Places, Reports, NEW c \in CustomerId,
                    Quiet(c), EntriesOf(c) # {}
             PROVE  \E n \in DebtEventsOf(c) : feed[n].balance = Balance(c)
  BY DEF CurrentBalanceIsAnnounced
<1>1. LedgerTypeOK /\ Len(ledger) \in Nat /\ DOMAIN ledger = 1 .. Len(ledger)
  BY LedgerTyped DEF TypeInv
<1>2. PICK j \in EntriesOf(c) : \A k \in EntriesOf(c) : k <= j
  BY <1>1, LastEntry
<1>3. j \in DOMAIN ledger /\ ledger[j].customer = c
  BY DEF EntriesOf
<1>4. j \notin unheard /\ \A h \in Handler : Busy(h) => entry[h] # j
  BY <1>3 DEF Quiet
<1>5. PICK n \in DOMAIN feed : IsDebt(feed[n]) /\ feed[n].entry = j
  BY <1>3, <1>4 DEF Places
<1>6. PICK k \in j .. Len(ledger) : feed[n].balance = BalanceAt(c, k)
  BY <1>3, <1>5 DEF Reports, BalanceSince
<1>7. EntriesOf(c) \subseteq 1 .. k /\ k \in Nat
  BY <1>1, <1>2, <1>3 DEF EntriesOf
<1>8. feed[n].balance = Balance(c)
  BY <1>1, <1>6, <1>7, BalanceAtLast
<1>9. n \in DebtEventsOf(c)
  BY <1>3, <1>5 DEF DebtEventsOf, IsDebt
<1> QED
  BY <1>8, <1>9

\* When nothing of a customer's is under way or given up, some event has told
\* the current balance, in whatever order handlers queried and emitted.
THEOREM QuietBalanceIsAnnounced == Spec => []CurrentBalanceIsAnnounced
<1>1. Inductive => CurrentBalanceIsAnnounced
  BY LastAnnounced DEF Inductive
<1> QED
  BY <1>1, StaysInductive, PTL

\* A session's end is heard before its debt (sessions.service.ts:224-232).
THEOREM EndHeardBeforeDebt == Spec => []EndBeforeDebt
<1>1. Inductive => EndBeforeDebt
  BY DEF Inductive, EndsFirst
<1> QED
  BY <1>1, StaysInductive, PTL

\* Notifications are about new debts, one each (notifications.service.ts:25-54).
THEOREM OnlyNewDebtsAlarm == Spec => []NoFalseAlarm
<1>1. Inductive => NoFalseAlarm
  <2> SUFFICES ASSUME TypeInv, Places, Alarms PROVE NoFalseAlarm
    BY DEF Inductive
  <2>1. \A n \in saving \cup inbox : n \in DOMAIN feed /\ feed[n].event = "debt.created"
    BY DEF TypeInv, Alarms
  <2>2. \A n \in saving \cup inbox : IsDebt(feed[n])
    BY <2>1 DEF IsDebt, DebtEvent
  <2> QED
    BY <2>1, <2>2 DEF NoFalseAlarm, Alarms, Places
<1> QED
  BY <1>1, StaysInductive, PTL

=============================================================================
