# A formal model of ZKP-rollup

TLA+ modules of the rollup in this repository, their TLC configurations, and
proofs checked by TLAPS. Paths below are relative to the repository's root.

## 1. The system

| component | state | operations | talks to |
|---|---|---|---|
| `MemPool` (sequencer) | MongoDB collection of transactions: `status`, `receivedAt`, ids | `insert_into_queue`, `insert_deposit_transaction`, `get_transaction_for_badge` | called by `BlockController` and `ChainListener` |
| `BlockController` (sequencer) | `transaction_counter`, `last_timestamp`, the `asyncio.Queue` of triggers; collections of badges (blocks) and of the badge pointer | `handel_transaction_submission`, `batch_queue_producer`, `batch_queue_consumer`, `form_new_L2_block`, `get_nonce_for_account`, `get_status_for_transaction` | `MemPool`, `MerkleTreeController` |
| `MerkleTreeController` (sequencer) | users collection with change logs (`account_updates`); sparse Merkle tree in memory | check, debit, credit, deposit leaf | called by `_update_merkle_tree` |
| `SetupService`, `main.py` | none of their own | funded users, genesis badge and its pointer; starts the three tasks | MongoDB |
| `ChainListener` | event filter and its position in the L1 node | creates the filter, polls deposit events every two seconds, starts two inserts for each | `MemPool`, L1 node |
| `DepositManager` (L1) | deposits, processed marks, rollup address, ether | `deposit`, `markDepositsProcessed`, `forceWithdraw`, `updateRollupContract` | calls the user back when it pays |
| `Rollup` (L1) | `batchCount`, `currentRoot`, `roots`, processed deposits of each batch | `submitBatch` | verifier, `DepositManager` |
| host (`executor/host`) | one run: batch file, receipt, pending transaction | prove, submit, wait for the receipt | guest, `Rollup` |
| guest (`executor/methods/guest`) | tree, working accounts, counters of one batch | verify, credit deposits, apply transfers, commit the journal | host |
| smt library | sparse Merkle tree | update, root | guest |
| client (`client/chain_client.py`) | the nonce it was told | `submit_transaction`: get-nonce, then submit | sequencer's HTTP API |
| frontend, scripts, vendored verifier contracts | - | produce inputs, verify seals | not modelled, see section 7 |

The parts are looser than the architecture picture suggests. The sequencer's
badges do not reach the host by any code of the repository: the host reads a
batch file that is written by hand or by a script. `ChainListener` asks for the
events `Deposit` and `Withdraw` of `Rollup.json`, while `Deposit.sol` emits
`DepositMade`. The model follows the code, so there is no module in which a
badge of `Sequencer` becomes a batch of `Guest`.

**What is hard.** The sequencer is one asyncio loop: every `await` on the
database lets another request, the producer, the listener or the consumer run,
database calls may fail before or after they took effect, some inserts are
started and never awaited, and a crash forgets everything but the database.
`forceWithdraw` hands control to the user in the middle of a call, and a revert
takes back what happened meanwhile. Runs of the host may overlap, lose their
transaction or give up waiting for one that is mined later. The guest keeps two
copies of the accounts and wraps around at 2^64. `PROJECT.json` lists every such
hazard at its line with the properties that are about it.

**What makes each part correct.**

- Sequencer: a transaction is in at most one block, once; its status agrees with
  the blocks and only moves forward; every block has an existing parent and its
  number is one more; a FILLEDUP trigger is earned by `BATCH_SIZE` submissions;
  what is taken into a batch ends in a block or FAILED.
- Sequencer as a whole: no transfer is carried out twice; what a block holds was
  carried out; the state root of a block is explained by its transactions; an
  account does not spend more than it has, whatever nonces its clients are told, as
  long as no call fails and no amount is negative.
- Listener: a filter handles an unbroken run of the logs, in order; a restart repeats
  one L1 block at the most; money that nobody deposited is not credited; what is
  watched is stored.
- Accounts: an account's debits form one chain of balances and nonces; leaves
  are encodable; an account below zero does not move, except by a transfer of its own
  of a negative amount; transfers move money and create none.
- Contracts: a deposit is credited or paid back, not both, and paid at most once;
  the contract can always pay; the root of a batch commits to it and to all before
  it.
- Host: its batch settles at the place of its badge id, once; its report of the
  receipt's status is true.
- Guest: what it commits is what it checked; no nonce twice; success covers the
  whole batch; for batches that name each account once and whose money fits, money is
  conserved and the program implements a ledger.

## 2. Modules

In the order in which they were planned, most important behaviour first:

| module | models | extends |
|---|---|---|
| `Sequencer` | MemPool, BlockController, SetupService, listener inserts | |
| `SequencerProofs` | | `Sequencer` |
| `Accounts` | MerkleTreeController, `get_nonce_for_account` | |
| `AccountsProofs` | | `Accounts` |
| `Node` | the sequencer as a whole with its clients: `Sequencer` over `Accounts` | `Sequencer`, instantiates `Accounts` |
| `NodeProofs` | that `Node` implements `Sequencer`; change logs, money and state roots | `Node`, `SequencerProofs`, `Sums` |
| `Listener` | ChainListener over a growing L1 chain | |
| `ListenerProofs` | | `Listener`, `Sums` |
| `DepositManager` | Deposit.sol | |
| `DepositManagerProofs` | | `DepositManager`, `Sums` |
| `Rollup` | Rollup.sol | `DepositManager` |
| `Settlement` | host runs and the chain, over both contracts | `Rollup` |
| `SettlementProofs` | that `Settlement` implements `DepositManager`; host runs | `Settlement`, `DepositManagerProofs` |
| `Ledger` | abstract specification: what the guest's accounts promise | |
| `Guest` | guest program, smt library | instantiates `Ledger` |
| `GuestProofs` | that `Guest` implements `Ledger`; tree, nonces, money | `Guest`, `Sums` |
| `Sums` | lemmas about sums over finite sets, for the proofs about money | |
| `MCSequencer`, `MCNode`, `MCListener`, `MCAccounts`, `MCDepositManager`, `MCSettlement`, `MCGuest` | instances for TLC | |

Each module has a short section "Seeded defects": alternative forms of one of its
operators, as a plausible bug would have it. Nothing of the specification uses
them; each is there because one property must fail when it takes the operator's
place (`mutants` in `PROJECT.json`).

### Sequencer

Documents are abstract: a transfer stands for its `transactionId`. All deposits
are stored with `transactionId` None, so a filter on that id matches all of them
(`SameId`). A badge's id is its index in `badges`; `curr` holds the pointer
documents, of which the code always uses the first.

What happens between two awaits is one action. A request is
`ReceiveSubmission`, `InsertTransaction` (or `InsertTransactionFails`, where the
insert may have taken effect all the same), `CountSubmission`. The consumer's
`pc` follows `form_new_L2_block`: `find` and `mark` (`get_transaction_for_badge`),
`stamp` (`last_timestamp`), `apply` (one document per step of
`_update_merkle_tree`), `insert`, `advance`. `QueryResult` says what
`sort(DESCENDING).limit(BADGE_SIZE)` may return; ties are open. `LoseBlock` is an
exception while the block is computed, `BlockStepFails` a database error from
there on; both are swallowed by the outer `except`. Whether a transfer passes the
account checks is left open (`ApplyOk`, `ApplyFailed`): `Accounts` has them, and
`Node` puts the two together.

`Boot` runs on every start, so a restart inserts a second genesis badge; its
pointer lands later (`PointerLands`) and, on a restart, behind the old one.

### Accounts

A user document has its opening values and the change log, exactly as the code
appends to it: the debit starts from `account_updates[len - 2]` (`DebitBase`), the
credit's entry goes to the *sender's* log (`CreditLog`). The branches under
`update_index` are dead, because `.get(("badgeId") == badge_id)` is `.get(False)`,
and are left out. `leaf_to_bytes` raises outside of eight bytes (`FitsLeaf`), after
the log was written. `DatabaseFails` is any failing call of the transfer in hand.
Amounts are of either sign, as `TransactionRequest` has them: nothing on the way from
the API to the tree looks at it.

### Node

Every step of `Node` is a step of `Sequencer`, or leaves it alone, together with what
happens to the accounts:

| step of `Node` | mempool and blocks | accounts |
|---|---|---|
| `GetNonce`, `NonceRefused` | - | reads the change log |
| `Submit` | `ClientStep` | - |
| `HandleEvent`, `TransactionInsertEnds`, `UserInsertEnds` | the deposit document | the user document, in either order |
| `ApplyTransfer` | `ApplyOk` or `ApplyFailed` with the last of its steps | `TakeUp`, `Debit`, `Credit` or `DatabaseFails` of the transfer in hand |
| `ApplyDeposit` | `ApplyOk` | the leaf of the deposit |
| `DropBlock`, `StoreBadge` | `LoseBlock`, `InsertBadge` | the tree is the state root of the badge |
| `NodeBoot`, `NodeCrash` | `Boot`, `Crash` | the tree is that of the funded users again |

`logged` is the transactions field of the change logs; `stateRoots` has the tree of each
badge; `lost` remembers which documents were in a batch whose block was dropped. A
client is one `submit_transaction`: it is told a nonce and submits with it, or its
sender is unknown and it gives up (`NoAccount`). `Accounts` alone takes any transfers in
any order; here they are those of the batch, so properties that relate a block to the
change logs and to the tree can be stated. `Unhashable` are the transfers at which
`create_transaction_hash` raises. A negative amount, or one above eight bytes, is always
among them (`UnhashableAssumption`); other fields may put any other transfer there.

### Listener

`chain` is the sequence of deposit logs with their blocks, `cursor` the position that
the node keeps for the filter in use; `starts` and `handled` remember, for every filter
since the first start, where it began and what it gave. `from_block="latest"` leaves to
the node whether the logs of the block that is the latest at that moment are still
returned, so `FilterStarts` allows both. `Poll` is one `get_new_entries`, `HandleEntry`
one round of the loop over its answer; each starts two inserts that land, fail unseen, or
die with the process. `deposit_chain_loop` catches nothing, so any error ends the task
(`TaskDies`) while the node runs on, and only `Restart` makes a new filter. Amounts are
cut to whole ether (`InEther`).

### DepositManager, Rollup, Settlement

A call that fails a `require` is no step. `calls` is the stack of withdrawals that
wait for their user; while it is not empty the user's code may call the contract
again (`UserStep`), and `TransferFails` restores the storage from before the
call. `DepositManager` alone is checked with any contract as rollup and a deployer
who changes the address (`ManagerSpec`); `Settlement` has the address the deployment
script sets (`LinkContracts`).

`Rollup` sees a batch as its journal. The verifier accepts every journal a proof
exists of, the constant `Journals`, of success or not. The batch id is an argument of
its own: it has to be the next one, and nothing compares it with the journal's badge id.
`ProcessedDepositIds` is empty, as in the code. keccak256 is the triple it hashes.
`Settlement` adds the runs of the host: a run goes on only with a journal of success
(`Checked`) and passes its badge id for the batch id; gas estimation refuses a call that
would revert (`Send`), a failed `send` may have reached the node (`SendFails`), a
transaction is mined late (`Mine`) or lost, and any number of runs may hold the same
batch. A run makes two reports: of any receipt, mined or reverted, "Batch published
successfully!" (`Receipt`), then what its status is (`Report`). `SubmitOutside` is
everybody else who has a proof: the same journal again, another one, or one the guest
found bad, under whichever id is next. `credited` remembers for each batch which of the
deposits of its journal the manager had at that moment.

### Guest, Ledger

One action per loop iteration. The root of a tree is the tree. `Applied` keeps
sender, receiver and self-transfer of the source; numbers are modulo `Modulus`. A batch
may name an account more than once: `find_account_index` finds its first place (`Index`),
the tree is given the leaf of its last (`TreeOf`).
`Ledger` knows credits and payments over unbounded numbers; the mapping takes
`account` to the tree (before `Load`, and for batches that are not `Regular`, to the
tree the batch describes).

## 3. Runs

| run | expects | question and bounds |
|---|---|---|
| `sequencer_safe` | pass | `UniqueInclusion`, `BadgedIsIncluded`, `ParentLink`, `LinearChain`, `FilledUpBacked`, `StatusForward`, `TypeOK`. Two transfers, one deposit, `BADGE_SIZE = BATCH_SIZE = 2`, two time units, one database error and one crash at any await: about 3 million states. |
| `node_safe` | pass | `ExecutedOnce`, `BadgedIsExecuted`, `NoOverspending`, `RootExplained`, and `TakenIsResolved` under fairness: two transfers of one account that cannot both be paid, one of them to an account that only the deposit makes known, and a third of a negative amount, which passes the account checks and cannot be hashed; `BADGE_SIZE = 2`, `BATCH_SIZE = 1`, one error or crash anywhere; the clock stands still (`MaxTime = 0`): about 610 000 states. |
| `listener_safe` | pass | `HandledInOrder`, `RepeatsOneBlock`, `CreditIsBacked`, `TypeOK`, and `WatchedIsStored` under fairness: two deposits of 3 and 6 wei with 4 wei to the ether, in one block or two; one error, two restarts: about 360 000 states. |
| `sequencer_deposit_batch` | violation | `BatchResolves` with a deposit. |
| `sequencer_fifo` | violation | `FirstInFirstOut` with `BADGE_SIZE = 1`, and the first batch triggered by the second transfer (`Interval = 3`). |
| `accounts_safe` | pass | `DebitsChain`, `OverdrawnIsFrozen`, `TypeOK`: three accounts, three transfers of any sender, receiver and nonce, of 2 or -2, two deposits, an error, a restart; `LeafMax = 4`: about 970 000 states. |
| `accounts_total` | violation | `TotalConserved` without errors and overflow. |
| `deposits_safe` | pass | `NoDoubleOutcome`, `NoDoublePayment`, `Solvent`, `ManagerTypeOK`: two users, three deposits, calls nested two deep. |
| `settlement_safe` | pass | `SettledInOrder`, `RootsChain`, `ReportedIsSettled`, `TypeOK`: three runs, four journals (two of success for badge 2, and one that is not), one submission by somebody else, one deposit: about 850 000 states. |
| `settlement_states` | violation | `StatesChain`. |
| `settlement_deposits` | violation | `SettledIsNotWithdrawn`. |
| `guest_safe` | pass | `TreeHoldsAccounts`, `NoReplay`, `SuccessIsComplete`, `Conserved`, `ImplementsLedger`, `TypeOK`: batches of up to two deposits and two transfers over two accounts and an unknown one, `Modulus = 8`; also such batches with an account named twice, with another old root, and with a deposit that wraps around: about 90 000 states. |

**Why the bounds are enough.** A batch of two is the smallest in which one
document fails and another does not, and in which order matters; one crash and
one error, placed anywhere, include crash after error and the reverse; a second
genesis badge needs one restart. Three transfers reach a third debit of one
account, the first whose base is not at an end of the log (`account_updates[len - 2]`
of four). Two nested withdrawals are a re-entrant call and one more inside; three
deposits let one be processed, one withdrawn and one wait. Three runs include two
of the same batch and one of another; a second journal for badge 2 is a batch
proved from an older state; one submission by somebody else (`MaxOutside = 1`) takes the
place of a badge, or settles a batch a second time, before, between or after those of the
runs. In `node_safe`, `MaxDisturbances = 1` puts one error or one crash
at each await, also between debit and credit; an error and a crash in one behaviour are
`sequencer_safe`'s and `accounts_safe`'s, and so is the moving clock: no property of
`node_safe` depends on when a batch is formed. Two
restarts give three filters, so two that are not neighbours are compared as well. `Modulus = 8`
leaves room for the sums of the regular batches of `guest_safe`, and a deposit of 7 exceeds it. The
bounds `MaxTime`, `MaxFaults`, `MaxCrashes`, `MaxDisturbances`, `MaxTransfers`,
`MaxDeposits`, `MaxBlock`, `MaxBlockSize`, `MaxDepth`, `MaxOutside` appear in guards only; deadlock
stays checked: `Sequencer`, `Listener`, `Accounts` and `Settlement` have a step
`EndOfRun` and `Node` a step `NodeEnd`, enabled only where every task waits at its bound
and every request is answered, and `Guest` a step `Done`.

**Symmetry.** Transfers in `sequencer_safe`, users in `deposits_safe`, runs in
`settlement_safe` are interchangeable; no run that checks liveness uses symmetry.

**Fairness.** `FairSpec` of `Sequencer` (for `sequencer_deposit_batch`),
`FairNodeSpec` of `Node` and `Spec` of `Listener` have some. The consumer and the
listener's loop are weakly fair because the event loop resumes a task whose call was
answered, and the drivers answer every call or raise; an insert that was started lands
for the same reason. Clients, deposits, L1, the clock, errors, crashes and restarts owe
nothing, and the errors are not in the fair part, so nothing is concluded from errors
that must happen. `TakenIsResolved` asks for a badge pointer (without one the block is
dropped, see `PointerLands`) and for a batch of transfers that can all be hashed: one with a
deposit or an unhashable transfer is lost (section 4).
`WatchedIsStored` holds filter by filter: a restart starts over.

## 4. Where code and documentation disagree

Each is a run that violates one property; `PROJECT.json` quotes the line.

- A batch with a deposit is lost (`sequencer_deposit_batch`): the block hash calls
  `to_bytes` on the deposit's nonce None. The transfers of that batch have been
  applied to the tree and stay INCLUDED, in no block, for ever.
- Newest first instead of first in, first out (`sequencer_fifo`): with more waiting
  than a batch holds, the older one is left.
- Repeated transfers change the total of all balances (`accounts_total`): the
  receiver's entry is pushed to the sender's log, so when a1 pays a2 one twice, both
  credits start from the balance a2 opened with, and the second leaf replaces the first.
  The same cause makes the nonce check compare with
  the receiver's nonce and lets a transfer change the nonce in the receiver's leaf.
- `submitBatch` never compares the journal's old root with its own
  (`settlement_states`): a batch proved from a state the chain has left is accepted.
- `submitBatch` marks no deposits (`settlement_deposits`): what a settled batch
  credited can be withdrawn on L1 after the timeout.

Seen while modelling and visible in the actions, without a run of their own: a
periodic batch passes over transactions that were stored while the previous one ran or
in the same second, since it asks for `receivedAt > last_timestamp`, and only a FILLEDUP
batch picks them up (with `Interval = 1` and `BADGE_SIZE = 2` in `SequencerFifo.cfg`,
`FirstInFirstOut` fails for this reason too); a client can be told the receiver's nonce
as its own, because of the same change log, and it is the encoding of a leaf below zero
alone that keeps `NoOverspending`; every
restart adds another badge number 0, behind the badges that exist; the block hash covers FAILED
transactions; a failed credit leaves the debit in the tree, and no error is needed for it, an overdrawn
receiver is enough; the deployer may
replace the rollup address at any time although the comment says otherwise; the
guest's additions wrap in the release build when `Fits` does not hold.

More of this kind, most of them the reason for a condition in a property:

- After one failed credit the next debit starts from the balance of the *receiver*
  (`account_updates[len - 2]` is then a credit's entry), so the account can overspend:
  `NoOverspending` and `DebitsChain` are about undisturbed runs.
- An amount may be negative. A transfer of -1 passes the balance check of an account
  below zero, moves money from receiver to sender, and in the odd log that a refused debit
  leaves it starts from the receiver's entry: `OverdrawnIsFrozen` says which transfers get
  through, `DebitsChain` stops at a debit after a refused one, and `NoOverspending` asks
  that no negative amount was debited (`Regular`).
- A transfer that cannot be hashed, even a FAILED one, loses the block of its batch, and
  the other transfers stay INCLUDED in no block, as with a deposit: `TakenIsResolved` is
  about batches without one.
- `submitBatch` takes the batch id from its caller. One proof can be settled again under
  the next id, and a journal that is not of success can be settled too: `SettledInOrder`
  speaks of the batches of runs. `txData` is not compared with what was proved either.
- The host prints "Batch published successfully!" before it looks at the receipt's status,
  and ends without an error for a reverted transaction: only "Transaction succeeded!" is a
  report in `ReportedIsSettled`.
- The update for a batch with one deposit marks every stored deposit INCLUDED, because
  they share the id None.
- A batch that names an account twice can be committed with success although the tree's
  money is not conserved: the old root has the account's last leaf, the first one replaces
  it. `Conserved` and `ImplementsLedger` are about `Regular` batches, `TreeHoldsAccounts`
  says how far tree and accounts agree on the others.

## 5. What is proved

For every value of the constants that the named assumptions allow, with the
bounds arbitrary. Every invariant and every action property that a passing run
checks is a theorem, and so are the three refinements: `Node` implements
`Sequencer`, `Settlement` implements the `DepositManager`, `Guest` implements `Ledger`.

- **`SequencerProofs`** (`DocsAssumption`, `SizesAssumption`, `BoundsAssumption`):
  `TypeCorrect`, `NoDoubleInclusion`, `StatusAgreesWithBlocks`,
  `BlocksLinkToParents`, `StatusMovesForward`, `BlocksFormOneChain`,
  `TriggersAreEarned`. `UniqueInclusion` is not inductive:
  what protects a transaction between `find` and the badge is its place in the
  consumer's locals. The invariant `IInv` adds `StoredOnce` (a handler that has not
  inserted its document cannot overwrite a status), `BatchInHand` (no duplicates, not
  in a badge, status as far as `pc` says), `KeptInHand` and `BlockInHand` (the same
  for `transactions_for_delta` and `l2_badge_new`). A crash empties the locals, so
  it preserves all of it; an error in `update_many` leaves more documents INCLUDED
  and fewer in hand. `ChainInv` says, while nothing has failed, where the pointer is: on
  its way, at the last badge, or one behind between `insert` and `advance`. `Earned` adds
  the counter to the triggers, `BATCH_SIZE` for each: a submission moves one from the
  counter's side to the triggers', and a trigger keeps its worth from the queue through
  the batch in hand into the badge. It needs no bound on the number of requests, only
  that finitely many were made (`Seen`).
- **`AccountsProofs`** (`AccountsAssumption`, `AccountsBounds`, `UnknownAssumption`):
  `TypeCorrect`, `DebitsFormChains`, `OverdrawnAccountsFreeze`. The chain needs the
  parity of the log: without an error, a log is of odd length only while its debit waits
  for its credit, or for ever when that debit was refused (`EvenLogs`), so each debit stands
  in an odd place and starts from the odd place before it (`Chained`), until something is
  debited after such a refused debit. `InHandSound` keeps what the check found: the log of
  the sender in hand ends with the amount or more. Amounts are of either sign.
- **`NodeProofs`** (those of `Sequencer`, and `NodeAssumption`, `NodeAccountsAssumption`,
  which is what `Accounts` assumes, and `RootAssumption`; amounts are any integers, and what
  `UnhashableAssumption` says of them is not needed): each step of
  `Node` is a step of `Sequencer` or leaves its variables unchanged
  (`NodeImplementsSequencer`), so `NodeIncludesOnce` and `NodeStatusAgrees` are theorems
  of `SequencerProofs` carried over. The others rest on three layers, each of which may
  use the ones before it:
  - `LogInv`, for `NodeExecutesOnce`, `NodeCarriesOut` and `NodeFreezesOverdrawn`. The
    entries of a transfer are at most two and next to each other, none exist while the
    consumer may still take it up (`ToCome`), and both exist once it was passed and is in
    a block or on the way there (`Passed`). That a transfer that has left `ToCome` never
    comes back, whatever fails, is `IInv` of `Sequencer`.
  - `MoneyInv`, for `NodeNeverOverspends`. The debits of an account add up to what its
    documents have lost since it was opened (`SpentIsGone`), and what is left is never
    below zero but in a log that is frozen. Like `DebitsChain` it needs the parity of the
    log, because a debit reads `account_updates[len - 2]`; hence `Regular`: no failed call
    and no negative amount that was debited.
  - `RootInv`, for `NodeRootsAreExplained`. While a batch is worked on, the tree differs
    from the root that the next block builds on only in leaves of the transactions kept
    so far, and of lost blocks (`TreeExplained`).
- **`ListenerProofs`** (`ListenerAssumption`): `TypeCorrect`, `EventsAreHandledInOrder`,
  `RestartRepeatsOneBlock`, `CreditNeverExceedsDeposits`. The invariant adds that no log on the chain is of a
  block above `height` (`BlocksBounded`), that what is in hand continues what was handled
  (`InHand`), and `OneBlock`: what an older filter handled at or after the start of a
  younger one is of one block. It needs the older filter only, so a younger one may go on.
  For the money: an event is on the chain once (`DistinctEvents`) and handled once by the
  one filter there is without a restart, so each stored document has an event of its own,
  and whole ether are no more than the wei they were cut from.
- **`DepositManagerProofs`** (`ManagerAssumption`): `OneOutcomePerDeposit`,
  `OnePaymentPerDeposit`, `OwedIsHeld`, `NeverOverdrawn`. The invariant says of every storage on the stack `calls`
  what it says of the present one; a revert brings one of them back. Its balance is
  what it owes, and a withdrawal takes the deposit off what is owed before it pays.
- **`SettlementProofs`**: `BadgesSettleInOrder`, `RootsCommitToHistory`,
  `ReportsAreTrue`, `SettlementTyped`. `Recorded` is the contract's part, for whoever submits;
  `Placed` says that a succeeded transaction stands in `settledBy` at the place of its badge
  id, and there only; `RunsSound` ties `pc` to the transaction and to a journal of success. `ManagerInSystem` is
  `Spec => ManagerSpec`; by it the theorems about the manager hold in the system
  (`UsersAreSafe`).
- **`GuestProofs`** (`GuestAssumption`: there are finitely many addresses and a batch has a
  leaf for every address it names, once or more often; `NonceAssumption`: opening nonces leave room for the batch's transactions below
  `Modulus`, which only `NoReplay` needs, but the one invariant behind all uses): `TypeCorrect`, `CommittedStateIsChecked`,
  `NoncesAreUsedOnce`, `SuccessCoversBatch`, `MoneyIsConserved`, `GuestIsLedger`. `NoncesGrow` bounds a nonce from above by
  the transactions processed, so it does not wrap, and from below by the nonces used. `PlacesHaveEnds`
  (a finite set of places has a first and a last one, by `SubsetInduction`) is what the
  batches need that name an account twice. The last two theorems are about `Regular`
  batches, which name each account once and of which all balances and deposits together
  are below `Modulus`: a balance is part of a sum that is below `Modulus`, so no addition
  wraps, so the sum stays what it was. Of other batches, which may wrap or replace a leaf
  (section 4), only the first four theorems speak.
- **`Sums`**: `SumFunctionOnSet` adds one element that CHOOSE picks after the other. That
  the order does not matter, that disjoint parts add up, that a part is no more than the
  whole, is proved by induction over the finite subsets of a set. The library's
  induction theorems take an operator, so `SubsetInduction` states induction for a *set*
  of subsets, from the well-founded order on them: among those outside of the set one
  would be minimal.

**What failed proofs showed.** `RootExplained` used to ask that no leaf is ever out of
range (`NoOverflow`), and to say that a FAILED transfer moves no leaf. Its proof failed at
the credit: a receiver whose log ends below zero, after an earlier debit, refuses the
credit although nothing overflows, and by then the sender's leaf has moved. It takes three
transfers of such an account; TLC finds it there. The property now asks
that no credit was refused (`CreditsFit`), which overdrawn senders do not disturb.
`SumFunctionOnSet` took the place of a fold over a set of pairs in `NoOverspending` and
`CreditIsBacked`, and what `Accounts` assumes of deposits was cut down to what `Node` can give it.

**Only model-checked**: the liveness properties `TakenIsResolved` and `WatchedIsStored`
under their fairness, and the five violations of section 4. Liveness, and what ENABLED is
needed for, are out of the prover's reach.

## 6. Abstractions

- Signatures are a Boolean of the transaction (`Signed`, `signed`); hashes are
  injective; a tree is a function from addresses to leaves.
- Nonces that clients send are those they were told, or 0 and 1 in `accounts_safe`; the
  check only compares them.
- A number beyond 64 bits makes the insert into MongoDB raise before the account checks or
  a later call of the update raise: the failing calls of the models, at any amount.
- Addresses are compared as the code compares them, as text in the sequencer and without
  regard to case in the guest; the two spellings of one address with and without 0x, which
  the guest's tree takes for one and its search for two, are not told apart.
- A batch file with fewer leaves than addresses makes the guest panic, so there is no
  journal; it is not among `Batches`.
- `submitBatch` is a transaction of its own: that a user who is being paid by
  `forceWithdraw` calls it from there is left out. It would mark no deposits.
- Amounts are integers. `int(amount)` and the sequencer's float are equal below
  2^53; nothing beyond is modelled.
- `find_one` on a user returns the first document; a second one for the same
  address (a repeated deposit, a restart) is inserted and never read.
- `Node` lets a client ask once for a nonce and submit one transfer; a client with more
  to send is several of them.
- L1 has no reorganisations, and the node does not expire the filter; an expired one
  raises, which is `TaskDies`.
- Time is whole seconds, as `get_current_timestamp` has it, and does not go back.
- MongoDB updates of one document are atomic, of several (`update_many`) are not.

## 7. Not modelled, and why

- `get_status_for_transaction`: reads one document and changes nothing.
- Deposits by the client (`add_users_to_the_rollup`): the call is commented out, and
  `depositETH` is not a function of the contract. The listener's filter for withdrawals is
  never created.
- `scripts/create_test_badge.py` writes batch files in a format the host no longer reads.
- Vendored verifier contracts, `sig_k256` and the ECDSA code of the guest:
  third-party or pure cryptography. Frontend and scripts: no state that the system
  reads. `create_transaction_calldata`: always the length `submitBatch` asks for.

## 8. Plan

Done: the modules, runs and theorems above. Left:

- What a node keeps of its tree and its roots when calls fail (`RootExplained` is about
   undisturbed runs), as far as the code keeps anything.
