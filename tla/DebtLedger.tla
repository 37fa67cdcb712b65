----------------------------- MODULE DebtLedger -----------------------------
(***************************************************************************)
(* The append-only debt ledger (src/src/modules/debt/debt.service.ts).      *)
(* A customer's balance is the signed sum of the entries and is not stored. *)
(***************************************************************************)
EXTENDS SessionPricing, Sequences, FiniteSetsExt

CONSTANTS
  CustomerId,
  MaxEntries      \* bound on the ledger's length

VARIABLE ledger   \* the committed entries, oldest first

EntryType == {"DEBT_ADD", "DEBT_PAYMENT", "DEBT_CORRECTION"}

\* An entry that belongs to no session has session 0.
Entry == [customer : CustomerId, type : EntryType, amount : Int, session : Nat]

LedgerTypeOK == ledger \in Seq(Entry)

-----------------------------------------------------------------------------
EntriesOf(c) == {j \in DOMAIN ledger : ledger[j].customer = c}

AmountOf(j) == ledger[j].amount

\* getBalance: COALESCE(SUM(signed_amount), 0).
Balance(c) == MapThenSumSet(AmountOf, EntriesOf(c))

Insert(c, type, amount, session) ==
  /\ Len(ledger) < MaxEntries
  /\ ledger' = Append(ledger, [customer |-> c, type |-> type,
                               amount |-> amount, session |-> session])

\* Run in the caller's transaction, so that ending a session and recording
\* its shortfall commit together.
FaultyAddDebt(c, amount, session) ==   \* outside that transaction
  /\ amount > 0
  /\ Insert(c, "DEBT_ADD", amount, session) \/ UNCHANGED ledger

AddDebt(c, amount, session) ==
  /\ amount > 0
  /\ Insert(c, "DEBT_ADD", amount, session)

\* The customer row is locked while the balance is read and the entry is
\* inserted, and an insert for the customer from elsewhere waits for that lock
\* through its foreign key: nothing comes between check and insert.
RecordPayment(c, amount) ==
  /\ amount > 0
  /\ amount <= Balance(c)
  /\ Insert(c, "DEBT_PAYMENT", -amount, 0)

\* The owner's adjustment: no lock and no look at the balance.
Correct(c, amount) ==
  /\ amount # 0
  /\ Insert(c, "DEBT_CORRECTION", amount, 0)

=============================================================================
