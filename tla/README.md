# A TLA+ verification of tss-server

tss-server is the threshold-signature service of the Metis sequencers: a small set of
servers generate an ECDSA key together (bnb-chain/tss-lib), keep one share each, and sign
together with it. Any server takes a client's gRPC call and coordinates it. This directory
holds TLA+ models of the protocol code around tss-lib, TLC configurations that check them
on small instances, and theorems about them that TLAPS has proved for all instances.

Paths below are relative to `src/`; line numbers are those of the commit modelled.

## 1. The system

| Component | Source | State | Operations |
|---|---|---|---|
| Key records | `tss/tss_manager.go`, `tss/tss_storage.go` | LevelDB: one `KeyData` per `keyId:sessionId` with a status PENDING, READY or ERROR; `Manager.lock` | check-and-set of a new PENDING record, compare-and-set of a status, latest READY record of a key id |
| Key generation, coordinator | `Manager.KeyGen` in `tss/tss_keygen.go` | per call: `errChan`, `readyP2PStreamChan` (both unbuffered), `readyP2PStreamMap`, `finishMsgChan`, `finishCnt`; two generations of goroutines, one goroutine per party | Prepare, collect Ready, Start, collect Finish, close the streams |
| Key generation, party | `handleKeyGen`, `handleKeyGen0` | per session: its record, a stream handler under the session's protocol id, `p2pProcessMsgChan`, a tss-lib local party | accept or refuse, validate, Ready, wait for Start, event loop, mark ERROR, tell the peers and the coordinator |
| Signing, coordinator | `Manager.KeySign` in `tss/tss_keysign.go` | per call: buffered `errChan` and `readyP2PStreamChan`, two wait groups, `finishMsgChan` | Prepare, wait for every answer, pick threshold + 1 ready parties, cancel the others, Start, wait for every finish, answer |
| Signing, party | `handleKeySign`, `handleKeySign0` | as in key generation, without a record of its own | look the share up, validate, Ready, wait for Start or Cancel, event loop, Finish |
| P2P streams | `tss/tss_p2p.go` | libp2p streams with a length prefix; for a server's stream to itself, a pair of Go channels of capacity 10; the map of local handlers | `NewStream`, `SendMsg`, `RecvMsg`, `Close`, `SetStreamHandler`, `RemoveStreamHandler` |
| Bootstrap | `bootstrapConnect`, `autoReconnect` | a buffered `errs`, a wait group | connect to every bootstrap peer at start |
| Validator | `validator/` | none; it asks the Themis chain over REST | `KeyGenValidate`, `KeySignValidate` |
| Reads | `GetKey`, `VerifySignature`, `GetLocalPartyId` | none | answer from the records, or from the arguments |
| Lifecycle | `main.go` | the order of starts and of deferred stops | start, signal, stop |
| tss-lib | external | a local party's rounds | `Start`, `Update`, messages on `outCh`, the result on `endCh` |

How they interact. A client's call runs `KeyGen` or `KeySign` on one server, the
*coordinator* of a session with a fresh uuid. It opens one stream to every party, itself
included, and the party runs `handleKeyGen` or `handleKeySign` on that stream. Parties
exchange tss-lib messages on *session streams*, one message each, which a handler
registered under the session's protocol id reads and passes to the event loop through an
unbuffered channel. All handlers of a server share its records, under `Manager.lock`, and
nothing else.

What is hard in it:

- sessions of the same key id run at the same time, coordinated by different servers,
  and every server decides on its own records only;
- goroutines outlive the call that spawned them and keep streams open, or use streams the
  call has closed;
- a session ends at each party on its own: by the key, a deadline, an error of tss-lib,
  an error message of a peer, or the end of a stream, in any order;
- rounds are broadcast peer by peer, and a failure in the middle leaves some peers with
  the round and some without;
- a server may stop between any two steps, and its PENDING records stay.

What makes each component correct:

- *records*: one live (PENDING or READY) record per key id and server; a status moves
  only from PENDING to READY or ERROR, whatever handlers of other sessions do;
- *key generation*: servers never have READY keys of different sessions for one key id;
  a READY share is of a key every party contributed to; KeyGen answers with a key only
  when all parties have stored it; a party dials its peers only when they listen; a call
  ends, and ends well when nothing fails;
- *signing*: a signature is answered only if threshold + 1 parties signed together with
  shares of one session; a call ends although parties beyond the threshold fail;
- *streams*: the messages read are those sent, whole and in order, and all of them when the
  stream does not break;
- *event loop*: it does what the protocol takes for one step per round, does not wait for
  itself, and leaves no goroutine behind when it succeeds;
- *validator*: a key is generated only for parties that were validators together, a
  signature given only for what the chain has agreed on;
- *lifecycle*: calls and handlers find the storage, the host and the stream handlers they
  use; a server that shall start or stop does so, and its records survive it.

## 2. The modules

| Module | What it is |
|---|---|
| `KeyStore` | the records of all servers and the operations on them, each one atomic step because it runs under `Manager.lock` and writes with `SetSync` |
| `KeyRegistry` | abstract specification of key generation over the records alone |
| `KeyGen` | coordinator, parties, streams and session messages of key generation, several sessions at a time; extends `KeyStore` |
| `KeyGenProps` | its type invariant, safety properties, refinement of `KeyRegistry`, liveness |
| `KeyGenInv` | the inductive invariant of the proofs |
| `KeyGenProofs` | theorems and proofs |
| `ThresholdSign` | abstract specification of a signing call |
| `KeySign` | one signing call: coordinator, canceller, parties, streams and session messages |
| `KeySignProps` | its type invariant, safety properties, refinement of `ThresholdSign`, liveness |
| `KeySignInv`, `KeySignProofs` | the inductive invariant of a signing call; theorems and proofs |
| `KeySignQuiet`, `KeySignQuietProofs` | the inductive invariant of a signing call that nothing disturbs; theorems and proofs |
| `Validator` | the checks of `validator/`, as operators over what the chain answers |
| `Service` | `KeyGen` and `KeySign` composed over the same records, with the chain their validators ask |
| `ServiceProps` | what a key and a signature say of the chain; that both calls succeed when it agrees |
| `ServiceInv`, `ServiceProofs` | what the chain has said to the parties that went on; theorems and proofs |
| `LocalRounds` | abstract specification of one party's part in tss-lib's rounds, as `KeyGen` and `KeySign` use it |
| `EventLoop` | the event loop of one party and the goroutines around its unbuffered channels |
| `EventLoopProps` | refinement of `LocalRounds`, liveness |
| `EventLoopInv`, `EventLoopProofs` | the inductive invariant of the loop and its goroutines; theorems and proofs |
| `MessageStream` | abstract specification of a stream |
| `P2PStream` | local and libp2p streams to a handler, with framing, limit and registration |
| `P2PStreamProps` | refinement of `MessageStream`, liveness |
| `P2PStreamInv`, `P2PStreamProofs` | the inductive invariant of a stream; theorems and proofs |
| `Storage` | LevelDB's map of one server, its prefix scan, and the manager's operations over it |
| `StorageProofs` | theorems about the order of keys, the scan and the storage keys |
| `Lifecycle` | the process of a server: `main.go`, bootstrap, the gRPC server, calls and handlers; extends `Storage` |
| `LifecycleProps` | its safety properties, the refinement of the operations of `KeyStore`, liveness |
| `LifecycleInv`, `LifecycleProofs` | the inductive invariant of the process; theorems and proofs |
| `MCKeyGen`, `MCKeySign`, `MCService`, `MCEventLoop`, `MCP2PStream`, `MCLifecycle` | the constants of the TLC runs |

How they fit together:

- `Service` instantiates `KeyGen` and `KeySign` with the same servers: the parties that hold
  a share in `KeySign` are those whose record is READY in `KeyGen`. It takes their actions
  as they are and adds to the action of a party that leaves the state "validate" what its
  validator says.
- `EventLoop` is below the action of `KeyGen` and `KeySign`: those hand a whole round to a
  party in one action, and emit the next one in another; `ImplementsLocalRounds` shows that
  the loop with all of its goroutines does just that.
- `P2PStream` is below their streams in the same way: `ImplementsMessageStream` and
  `DeliversAll` are what `link`, `c2p`, `p2c` and `net` take for granted.
- `Lifecycle` is one server seen over several lives, where `KeyGen` has a crash in one step.
  `ImplementsKeyStore` says that its map of byte strings behaves as the records of
  `KeyStore` do.

### How state and actions correspond to the code

`PROJECT.json` maps every definition to its lines. The principles are these.

- *A goroutine is a program counter*: `phase[s]` for the goroutine of the call,
  `worker[s][p]` for the goroutine that serves party `p` (first the one that sends
  Prepare, then the one that sends Start), `handler[s][p]` for the handler at `p`,
  `canceller` for the goroutine of KeySign that cancels surplus parties. One action is
  what a goroutine does between two points where it can block. `KeySign.tla` has one
  call only, so its variables are not indexed by sessions.
- *Channels*. An unbuffered channel is a rendezvous: a worker that sends on one stays in a
  state ("ready", "err", "success", "failure") until the call takes the value (`TakeReady`,
  `TakeError`, ...); when the call has returned it stays there for good. All these states
  are then merged into "end" (`Abandoned`), because nothing distinguishes them any more;
  a goroutine that has not dialled, or not sent Start, goes on. KeySign's buffered channels
  are sets (`readyChan`, `errChan`, `result`); `select` is a choice between actions.
- *A stream between the call and a party* holds at most one message per direction (`c2p`,
  `p2c`), and `link` says whether it is open, closed by the call ("closed"), closed by the
  party ("left"), or broken ("reset"). What was sent before a Close is still read. The
  stream of a server to itself is a pair of Go channels: it cannot fail, but sending on it
  after Close panics (`SendStartPanics`).
- *Session streams* carry one message each. `net` holds the messages that their sender has
  sent with success and that have not been handed to the event loop. A dial succeeds while
  the session's handler is set (`Listening`). A round is handed to all peers in one step, or
  to some of them when the first failing peer ends the loop (`SendRoundFails`).
- *tss-lib* is external. A party emits the messages of its round 1 when it starts, those of
  round r + 1 when it has round r of all others, and its result when it has the last round
  of all others; it may report an error at any time ("tss"). The number of rounds is a
  constant.
- *Time* is left out: a deadline is an event that may happen at any time ("timeout"), and
  a client may cancel at any time ("cancel").
- *A crash* ends the goroutines, handlers and streams of a server and keeps its records; a
  panic anywhere in the process is the same step (`ProcessDies`). The sessions of a crashed
  server are over for it; new sessions go on.

- *The event loop* (`EventLoop`). tss-lib's local party is a lock, a round, the messages it
  has yet to emit and those it has stored. The goroutine that runs `Start` and those that
  run `Update` hold the lock while they send on `outCh` or `endCh`; such a send and the
  loop's receive are one step, and happen only while the loop is at its `select`. A message
  goes from its session stream's goroutine to the loop, and from there to an Update's.
- *Pieces of messages* (`P2PStream`). A libp2p stream carries units, the first of which is
  the length; writer and reader take one unit at a time, so that a stream can end or be
  given up between any two. A local stream is a channel of whole messages with a capacity.
- *LevelDB* (`Storage`) is a function from sequences of bytes to records. The scan starts at
  the prefix and ends before the first key without it, in the order of the bytes.
- *The process* (`Lifecycle`). `main` is where main.go is; deferred calls run in the reverse
  order of their `defer`. A handler that uses a closed LevelDB panics.
- *The chain* (`Service`) is `mpcSet` and `info`. `seen` is a history variable: the sets of
  validators that were current since KeyGen was called. Question, answer and the party's
  next message are one step, because nobody can observe the party in between.

What is merged or left out of the state: messages to a party of key generation whose
handler has left the event loop are dropped (`Reading`, `Leave`), since the goroutines that
hold them block for ever and nothing observes them. In KeySign they are kept, because the
handler closes the channel they are sent on (`ClosePanics`). Messages whose type is never
sent at that point of the protocol (the `default` branches) do not occur. A key's save data
and public key are those of its session, so a record is its status.

## 3. The runs

All runs are listed in `PROJECT.json`; TLC explores each completely. Deadlock checking is
off in all of them because a finished system stops.

| Run | Instance | Properties | Distinct states |
|---|---|---|---|
| `keygen_race` | 2 servers, 2 sessions of one key id, each server coordinates one; 1 round; deadlines, lost messages, crashes, panics | `Inv`, `OneLiveRecord`, `KeyAgreement`, `ImplementsRegistry` | 412 674 |
| `keygen_faults` | 3 servers, 1 session, 2 rounds, all eight faults, symmetry of the two servers that do not coordinate | `TypeOK`, `SuccessMeansReady`, `StartBarrier`, `AllContributed` | about 582 000 |
| `keygen_ends` | 3 servers, 1 session, 1 round; rejections by the validator, cancellation, deadlines, lost messages | `CallReturns`, `JoinedReleased` | 63 755 |
| `keygen_pending` | 2 servers, 1 session, crashes | `PendingIsGenerating` (violated) | |
| `keygen_stuck` | 2 servers, 1 session, rejections | `PendingEnds` (violated) | |
| `keysign_faults` | 2-of-3 (Threshold = 1), 2 rounds, all faults but "late", symmetry | `TypeOK`, `Inv`, `FinishedTogether`, `ImplementsThresholdSign` | 310 591 |
| `keysign_ends` | 2-of-3; one record is READY at first, the others become READY at any time or never; cancellation, deadlines | `SignersListen`, `CallReturns`, `SignersEnd` | 85 274 |
| `keysign_wait` | 2-of-3, no fault | `WaitEnds` (violated) | |
| `service` | 3 servers, 2 rounds, key generation and then a 2-of-3 signing call at another server; two sets of validators, two messages, two proposals | `GeneratedByMembers`, `SignsAgreedMessage`, `NoSendOnClosed`, `ChainInv`, `SigningQuiet`, `KeyGenCompletes`, `SignCompletes` | 45 794 |
| `event_loop` | 2 peers, 2 rounds of one and of two messages; deadlines, failing streams, errors of tss-lib and of peers | `Inv`, `ImplementsLocalRounds`, `LoopReturns`, `NothingLeft` | 166 636 |
| `lifecycle` | 2 bootstrap peers, 1 client, 3 sessions of the key ids `a`, `ab` and `a:b`, 2 creation times; bad arguments, taken ports, unreachable peers, crashes | `Inv`, `CallsServed`, `ReadsOwnRecords`, `AnswersStand`, `ImplementsKeyStore`, `BootstrapReturns`, `Stops` | 156 714 |
| `streams` | a local and a libp2p stream, two messages each of size 0, 1, 2 and 3 at a limit of 2; a connection that breaks | `ImplementsMessageStream`, `DeliversAll` | 111 100 |

Why these bounds are enough to be interesting. Two servers and two sessions are the
smallest race: each server can accept the other's session first, refuse its own, fail after
the other is ready, and so on. Three servers are needed for a broadcast that reaches some
peers only, for one party to be READY while another has failed, and, in signing, for a
surplus party. Two rounds distinguish a party that has taken part from one that has
finished (tss-lib has three message rounds in key generation and nine in signing; the
rounds in the middle are all alike in the models, and the theorems hold for every number).
Two rounds also make the event loop emit a later round from an Update, and two messages of
one round let Updates run in either order. Key ids of which one is a prefix of the other, with
and without a colon, are the cases that a prefix scan can confuse; two messages per stream
show a header that would be taken from a body. Rejections are in `keygen_ends` because
only a party that fails before Start makes the call return through `errChan`. The other limits are the constants
themselves: there is no counter to bound, because a session is used once.

`service` lets the client call KeySign only after its KeyGen has returned the key, which
keeps the product of the two protocols small; a signing call while the generation is still
ending at other servers is `keysign_ends`. In `service` no server stops and no deadline
passes; the chain changes only while some party has yet to ask it.

Every property has a mutant in `PROJECT.json`: a definition changed as a plausible bug
would change it (the check of the key id forgets PENDING sessions, the status is set without
comparing, a count is off by one, streams are not closed, a broadcast goes to all parties of
the key, ...), for which TLC finds the property violated in the same instance. The mutated
operators stand before the definitions they replace and are called "faulty" in their comments.

### The properties

- `OneLiveRecord`, `KeyAgreement`: each server looks at its own records only, yet no two
  servers of the same requests end with READY keys of different sessions. `KeyAgreement`
  covers servers that take part in both sessions: sessions with different party sets do not
  exclude each other in the code.
- `AllContributed`, `SuccessMeansReady`: what one READY record, or the answer of KeyGen,
  says of the other servers. A party may be READY while others have failed; it is then
  READY for a key that everyone contributed to.
- `StartBarrier`, `SignersListen`: parties dial their peers without retrying, so nobody may
  start before all peers listen.
- `ImplementsRegistry`: every step of the protocol is a step of `KeyRegistry` on the
  records, or changes none. A record is published only when all parties have accepted its
  session and no rival is READY, and READY and ERROR are final.
- `ImplementsThresholdSign`: a signature is answered only after Threshold + 1 holders of
  shares did their part of every round, and no more than these ever do.
- `FinishedTogether`, `NoSendOnClosed`: what a finished signer says of the other signers,
  and that a handler that closes its session channel closes it under no message. The second
  is false when a signer is ended in the middle of a round: a message that arrives then is
  sent on a closed channel, and the process panics. It is checked in `service`, where
  signers end by refusal, cancellation or completion only; `keysign_faults` includes the
  panic.
- `GeneratedByMembers`: each party asks for the validators at its own time, while they
  change; still, all parties of a READY key were validators together at some time since the
  call. `SignsAgreedMessage`: what the verdicts of the signers add up to, when the proposal
  and its signature appear on the chain between them. A proposal that is signed already is
  accepted with any key id and message, and messages are compared with `bytes.EqualFold`;
  the property says what is left.
- `Inv` of `KeySign`, `EventLoop` and `Lifecycle`, `SigningQuiet`, `ChainInv`: the inductive
  invariants of the proofs (section 4), which say where everything else can be when a signer
  answers, a message is stored, main is at a point, a handler closes its channel, or a party
  has its validator's consent.
- `ImplementsLocalRounds`, `ImplementsMessageStream`: the two refinements that justify the
  larger actions of `KeyGen` and `KeySign`.
- `ReadsOwnRecords`, `AnswersStand`: a scan finds every record of its key id and, among key
  ids without a colon, no other's, whatever lies next to them; a key once found for GetKey
  or KeySign stays READY and unchanged. Neither promises anything of the scan for `a` when
  there is a key id `a:b`; see the end of this section.
- `CallsServed`, `ImplementsKeyStore`: shutdown against calls and handlers that still run.
- `KeyGenCompletes`, `SignCompletes`, `CallReturns`, `JoinedReleased`, `SignersEnd`:
  liveness. A call succeeds when no server fails and the chain agrees; a call among servers
  that stay up returns; a party is released when the call it has joined fails.
  `JoinedReleased` excludes the coordinator's own party: the record of that one stays
  PENDING when `SendStartPanics` takes the process down.
- `LoopReturns`, `NothingLeft`, `DeliversAll`, `BootstrapReturns`, `Stops`: nobody waits for
  somebody who waits. The loop returns although it and its Updates wait on each other's
  channels, because every Update has a goroutine of its own; bootstrap ends because `errs`
  has room for every peer; the process ends after a signal, or when it cannot listen.

### Fairness

The liveness runs use `FairSpec`: weak fairness of each goroutine (the call, each worker,
the canceller, each handler), which is what the Go scheduler gives, and of `Deadline`, since
a context with a deadline is done once it has passed. `service` and `event_loop` assume
nothing of deadlines: what they show must not need one. A validator answers, since its
request has a timeout of 30 seconds. In `lifecycle`, calls return (that is `CallReturns` of
the other models, under their assumptions) and `host.Connect` does; handlers of key
generation may run for ever. No fairness is assumed of clients, of the chain, of signals, of
crashes or of any other fault. That `CallReturns` needs the deadlines is what the code
intends; runs with lost messages have no other way to end.

### What the violated properties show

- `PendingIsGenerating`: a server that stops while it generates a key has a PENDING record
  afterwards and no handler that would finish it; `checkAndSetKeyGenStorage` refuses the key
  id from then on with "key is generating, please do not repeat".
- `PendingEnds`: the same without a crash. One party fails, KeyGen returns, and the Ready
  of another party arrives afterwards: its goroutine blocks on `readyP2PStreamChan` for
  ever, the stream is closed by nobody, and the party waits for Start without a deadline.
- `WaitEnds`: in a signing call without any fault, the signers may finish before the
  canceller has run. KeySign returns, its context is done, and the canceller's `select` may
  take that case: the surplus party is never cancelled and waits for ever.

One more disagreement shows in `lifecycle`, without a property that is violated for it.
`LocalStorage` says "get KeyData list by keyId" (`tss/tss_storage.go:12`), but the scan for
`a` at line 45 also returns the records of `a:b`, in the code as in the model, and nothing
keeps colons out of key ids. So GetKey of `a` may answer the public key of `a:b` under the key
id `a`; KeyGen of `a` is refused while `a:b` is PENDING or READY; KeySign of `a` may start with
the record of `a:b`, whose share no party then finds under `a`. The properties of `lifecycle`
neither forbid this nor require it: they would hold of a scan that is corrected.

## 4. The proofs

Eight modules hold theorems. Each one is about every value of the constants: any number of
servers, sessions, rounds and messages, any key ids and sizes, any set of faults, from the
assumptions named in the modules and nothing else.

| Module | Theorem | States |
|---|---|---|
| `KeyGenProofs` | `Invariance`, `TypeCorrect`, `Exclusion`, `Contribution` | `Inv` of `KeyGenInv`, and `TypeOK`, `OneLiveRecord`, `AllContributed`, which are conjuncts of it |
| | `Agreement`, `Success`, `Barrier` | `KeyAgreement`, `SuccessMeansReady`, `StartBarrier`, which follow from `Inv` |
| | `Refinement` | `Spec => ImplementsRegistry` |
| `KeySignProofs` | `Invariance`, `TypeCorrect`, `Together` | `Inv` of `KeySignInv`, `TypeOK`, `FinishedTogether` |
| | `Barrier`, `Refinement` | `SignersListen`, `ImplementsThresholdSign` |
| `KeySignQuietProofs` | `Undisturbed`, `NoPanic` | `QuietInv` and `NoSendOnClosed`, for a call that nothing disturbs |
| `ServiceProofs` | `KeyGenInService`, `KeySignInService` | the service implements both protocols: their theorems hold in it |
| | `Calm`, `NoPanic` | `SigningQuiet`, `NoSendOnClosed`, now without a premise |
| | `ChainInvariance`, `Members`, `AgreedMessage` | `ChainInv`, `GeneratedByMembers`, `SignsAgreedMessage` |
| `EventLoopProofs` | `Invariance`, `Refinement` | `Inv` of `EventLoopInv`, `ImplementsLocalRounds` |
| `P2PStreamProofs` | `Invariance`, `Refinement` | `Inv` of `P2PStreamInv`, `ImplementsMessageStream` |
| `StorageProofs` | `ScanFindsPrefix`, `StorageKeyInjective`, `StorageKeyPrefix` | facts about all byte strings |
| `LifecycleProofs` | `Invariance`, `TypeCorrect`, `Served` | `Inv` and `TypeOK` of `LifecycleInv`, `CallsServed` |
| | `OwnRecords`, `Answers`, `Refinement` | `ReadsOwnRecords`, `AnswersStand`, `ImplementsKeyStore` |

The proofs are laid out alike: one lemma per action, one step per conjunct of the invariant
that the action can disturb, frame lemmas for the conjuncts whose variables it leaves alone;
`StepInv` puts the actions together and `StepRefines` maps each to an abstract step.

### Key generation

None of the properties is inductive as it stands; `Inv` adds where a message
or a goroutine of a session can be. `BeforePrepare` and `ReadyMeansAccepted` say that a
Ready seen by the coordinator comes from a party that has accepted the session, and
`AfterStart` that nothing later than Start exists before all parties are ready; with
`RoundsWereSent` this gives `AllContributed` and `StartBarrier`. `HandlerOwnsRecord` says
that the record of a working handler is PENDING, so that the compare-and-set of `Complete`
succeeds and that of `MarkError` touches no other session's record. `ReportedMeansReady`
gives `SuccessMeansReady`.

`KeyAgreement` is the one that needs an idea. Let sessions s and t of one key id be READY at
p and at q, both of them parties of both. Both sessions have started, so p and q have
accepted both; by `OneLiveRecord` p no longer has t live and q no longer has s live, so p has
failed t and q has failed s. That alone is not contradictory: a party may fail after it
has done its part of all rounds. `NoSplit` closes the gap: if p and q have each contributed,
or may still contribute, to both sessions, then one of the sessions has failed at both. For
a session to start, p and q must have it PENDING at the same time as far as messages let one
tell, and so have failed the other one before; a session failed before Start gets no round
from them, so it is READY nowhere.

### Signing

`SignersFixed` is what makes the argument work: the signers are chosen one by one until they
are Threshold + 1 and stay so, by the cardinality lemmas of FiniteSetTheorems, and
`AfterStart` says that whatever comes after Start happens at signers, and only then. A
signer that has finished has every round of every peer (`RoundsWereSent`), so a signature
answered is one of Threshold + 1 holders of shares that did their part. This holds under all
faults, crashes and the panic of a closed channel included.

That no handler closes its session channel under a message is false under those faults and
needs an invariant of its own, `QuietInv`, of a call in which validators may refuse and
shares may come late, but nothing else happens (`Quiet`). A party's handler then returns
in three ways: it was refused, cancelled, or done. The invariant says that a signer is neither refused nor
cancelled (`ReadyWaits`), that the goroutine that serves it stays until it has answered, and
that it answers only when all signers have sent all of their rounds
(`SignersComplete`, `RoundsInOrder`): every message still on its way would be one that its
receiver is missing (`MessagesExpected`), so there is none.

### The service

`Service` is `KeyGen` and `KeySign` with more guards and more variables, so it implements
both of them: `KeyGenInService` and `KeySignInService` carry their theorems over, and
`Calm` and `NoPanic` follow because the service has the faults of `Quiet` only. What the chain adds
is `ChainInv`: a party that went on had its validator's consent, and the consent still
stands, for the sets of validators seen since the call can only become more
(`VerdictsHeld`), and a proposal that is acceptable stays so when it is signed
(`ProposalHeld`). A READY key has had Ready from all parties, a signature from a signer, and
the rest follows.

### The event loop

One goroutine at a time holds the local party's lock and has messages of the current round
left to emit (`OneHolder`, `LeftInRound`); what is stored was taken from the loop before it
is stored, and a round begins only when the one before is stored in full (`StoredInOrder`);
as long as the loop passes messages on, the rounds before the current one are out
(`SentInOrder`). That last conjunct is what a loop that goes on after a failed broadcast
would break.

### Streams

The invariant of a libp2p stream gives each unit a place, numbered from the first unit ever
sent: `at[i]` is the place of the length of message `i`, and its bytes follow
(`Places`). The handler is at a place `Here`, known from the number of messages returned and of
bytes read; what is in the stream and what is still to be written is, unit by unit, what
belongs from `Here` on (`OnTheWire`). So a length is read where a message begins, and when the
body is full it is that of the next message. A stream that broke is not read any more, and needs nothing.
`UnitTaken` and `FrameAdded` are the two lemmas about places.

### Storage and the process

`StorageProofs` are facts about the byte strings. A scan that starts at the prefix and stops
at the first key without it misses nothing, because keys between two keys with a prefix
have it too. The session id is a uuid without a colon, so the *last* colon of a storage key
ends the key id: two records never share a key. A scan for `k` finds the records of
`k` and of key ids that begin with `k` and a colon, no others; the latter have a colon
(`ExtendsByColon`). With these, `LifecycleProofs` shows `ReadsOwnRecords`, and that the operations on the map of byte strings are those
of `KeyStore`. `CallsServed` follows from what is up at each point of main (`Started`) and
from GracefulStop, which waits for the calls (`Serving`); `AnswersStand` from the fact that
no operation touches a READY record.

### The assumptions

Besides the types of the constants: there are finitely many parties in a signing call, and
finitely many bootstrap peers, at least one; at least one round in tss-lib, and at least one
message per round; Threshold is a natural number; session ids have no colon (they are
uuids); in `Service`, nobody asks to sign the empty message under the empty key id, for
which `getSignInfo`'s answer without a proposal would pass for one (`RequestAssumption`); in
`P2PStream`, only one message is encoded as no bytes, without which nothing could be decoded
(`EncodingAssumption`; proto.Marshal gives no bytes for the message without fields only), and
no message is longer than an unsigned 32-bit length can say (`LengthAssumption`): `SendMsg`
converts the length to `uint32` unchecked, and from 4 GiB on the rest of a message would be
read as the messages after it.
TLC evaluates them on every run.

### What is only model-checked

All liveness (`CallReturns`, `JoinedReleased`, `SignersEnd`, `KeyGenCompletes`,
`SignCompletes`, `LoopReturns`, `NothingLeft`, `DeliversAll`, `BootstrapReturns`, `Stops`):
it needs fairness and ENABLED, which the prover has no rules for. Every safety property of a
passing run is a theorem. The invariant of `P2PStream` quantifies over infinitely
many places, so no run has it; TLC checks the refinement that it is for.

## 5. What is not modelled

- The save data, the public keys and signatures themselves: they are tss-lib's.
- Lists of parties with repetitions: with a repeated party `readyP2PStreamMap` never reaches
  the length of the list, and KeyGen waits for its context.
- The invalid values of Threshold; KeyGen passes it to tss-lib unchecked.
- The number of round messages and what is in them; a party of tss-lib in `EventLoop` is
  what the loop can see of it.
- Development mode (`-dev`), in which parties do not ask the validator.
- `autoReconnect`, whose only call is commented out; `DeleteKeyData` and
  `checkAndSetKeyResharingStorage`, which have no caller; the method KeyDelete is answered
  "Unimplemented" by the generated code.
- The negotiation of a protocol at libp2p, which may report a missing handler only when the
  stream is used, and the DHT.
- The encoding of protobuf messages, REST and JSON; flags, key files, scripts; signature
  arithmetic (`ParseSignature` has no caller).

## 6. The plan

Done: all components of section 1 except those of section 5, and the proofs of section 4.

Left, in this order:

1. `KeyGen` with party lists as sequences, with repetitions, and its proofs again for them.
2. Several signing calls of one key at a time over the same records; they share nothing else,
   which is a theorem worth having.
3. Safety halves of what is only model-checked: that a goroutine left behind by a call of
   KeyGen never touches a record, and that each state in which a goroutine of a signing call
   waits names the one that can wake it up.
