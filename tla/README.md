# Legacy Pulse: TLA+ models, checks and proofs

Legacy Pulse keeps messages, memories and files for a person's heirs and
releases a message when the condition its owner chose has been satisfied. The
server is a FastAPI application with SQLAlchemy sessions on SQLite
(`src/pybackend/app`). This directory models the parts of it that keep state,
checks them with TLC on small instances, and proves what matters most about
them with TLAPS for every size.

## 1. Inventory

| Component | Source | State | Operations | What makes it correct |
|---|---|---|---|---|
| Release engine | `services/release_engine.py` | a message's `release_state`, `is_released`, `policy_frozen`; confirmations; history of transitions | owner request, trusted confirm, finalize, cancel, direct `transition()` | no release before its condition is satisfied; RELEASED is final; a contact counts once; a quorum is acted upon; a cancellation takes confirmations back; the history replays |
| Release endpoints | `main.py` 507-524, 766-881; `core/database.py` | one SQLAlchemy session per request | `/release`, `/confirm`, `/cancel`, deletion of a contact | the above, whatever the interleaving |
| Accounts and sessions | `main.py` 226-349, 375-394 | the user row, refresh tokens | register, login, refresh, logout, change password | changing the password ends all sessions; a login is one session |
| Step-up | `core/step_up.py`, `main.py` 355-372, 464-479, 782-794 | signed tokens; a set of consumed ones in memory | issue, verify, consume | a token is spent once, by its user, for its scope |
| Login rate limit | `services/rate_limit.py`, `main.py` 264-276 | list of failed attempts per key in memory, under a lock | check, record, clear | between two successes or restarts, which empty the list, no more logins in a window than the limit; a lockout ends |
| Audit trail | `services/audit.py`; callers everywhere | rows chained by hash | `log_action`, `verify_audit_chain` | the chain verifies; every change has an entry and every entry a change |
| Media and memories | `main.py` 551-657, 886-971; `utils/files.py`; `services/media_guard.py` | upload directory, `media_assets`, `memories` | upload, attach, delete a memory | a listed file is whole and in a memory of its owner; contents match their type |
| Confirmation tokens | `core/confirmation_tokens.py`, `release_engine.py` 26-50 | consumed nonces in memory | issue, verify, consume | honoured once, in the state they name |
| Family, life events, messages and their texts | `main.py` 101-190, 397-763 | rows of one owner, with encrypted columns | seed, create, list, change, delete | a text reads back as it was committed last, under the scheme it was stored with; nothing is left to a deleted contact |
| Encryption | `core/crypto.py`, `core/security.py` | a key per scheme; scheme, nonce and version are columns of the rows | encrypt, decrypt, hash, sign | what one endpoint seals another opens |
| Profile | `main.py` 416-434 | columns of the user row | update | |
| Configuration, schemas, middleware; client | `core/config.py`, `models/schemas.py`, `core/middleware.py`; `static/index.html` | none on the server | | |

How they interact. Every endpoint but one is a plain function, which the server
runs in a thread pool: requests interleave freely, each with a session of its
own. (`upload_media` is a coroutine that does not yield after reading its body:
uploads exclude each other, and interleave with the threads.) Requests share
the database and three tables in memory: consumed step-up tokens, consumed
nonces, failed logins. There is no queue, no background task and no callback.

What is hard:

* *Stale reads.* pysqlite opens no transaction for a SELECT, a session keeps
  the first version of a row it loaded, and an UPDATE writes the changed columns
  with no version check. A request decides on what it loaded and writes over
  what others committed since.
* *Check, then act.* The duplicate confirmation, the usable refresh token, the
  unconsumed step-up token, the rate limit, the last audit entry and the memory
  a file is attached to are all looked up in one step and relied on in a later
  one.
* *No flush before a query.* The server's sessions have `autoflush=False`; the
  tests use sessions that flush.
* *Two encryption schemes side by side,* told apart by a version column, the
  first character of the ciphertext and whether a nonce is stored, which
  different endpoints set differently.
* *Several transactions in one request,* and state in memory that a restart
  forgets.

`PROJECT.json` lists each hazard at its line with the properties aimed at it.

## 2. Modules

| Module | Models | Corresponds to |
|---|---|---|
| `ReleaseEngine` | tables and computations without state | the graph of `models.py`; `Walk`, `Record` and `Permitted` are what a run of `transition()` calls does, leaves in the history and requires; `PolicySatisfied` is `_policy_satisfied`; `Counted` is `count_valid_confirmations`; `ConfirmPath` and `OwnerPath` are the transitions an operation makes |
| `ReleaseWorkflow` | the service layer, one call at a time | one action per function of `release_engine.py`, with the commit of its callers |
| `ReleaseContract` | the promise of `release_engine.py:4-6` | abstract: a condition comes to be satisfied, then a release may happen, for good |
| `ReleaseRequests` | the endpoints, interleaved | one action per query a request makes and one per commit; `request[w]` holds the loaded message and the transitions made on it; `Flush` is the column-wise UPDATE |
| `Sessions` | accounts and refresh tokens of one address | one action per check and per commit of each endpoint |
| `StepUp` | step-up tokens, with restarts | `Verify`, `Consume`, and the commit they pay for |
| `ConfirmationTokens` | the signed confirmation tokens | `Verify`; the look into the set of nonces and the addition to it are two actions, as a query lies between them |
| `OneTimeTokens` | both kinds of token in one server | the same threads serve both; a restart empties both sets at once |
| `LoginLimit` | logins of one key, with restarts | one action per locked access; an attempt is its age, so time has no bound; two history variables keep what the list forgets: every login of the window that failed or succeeded, and every success or restart |
| `AuditLog` | the audit chain | link, stamp and commit of `log_action`, for callers that log in their transaction and for callers that log after it |
| `MediaVault` | files, their rows, memories | `validate_upload` and `detect_mime` as operators; upload and deletion step by step |
| `Archive` | contacts, life events, memories, messages and their texts | the encryption functions and the listings as operators; one action per creation, and the load and the commit of `update_memory`, `delete_memory` and `delete_family` |
| `MC*` | | the instances TLC checks |
| `ReleaseEngineLemmas`, `ReleaseWorkflowProofs`, `ReleaseRequestsProofs`, `OneTimeTokensProofs`, `ArchiveProofs`, `AuditLogProofs`, `MediaVaultProofs`, `SessionsProofs` | | proofs; where a theorem is about requests served one by one, the module extends the `MC*` module with the history variable it speaks of |

`ReleaseWorkflow` and `ReleaseRequests` extend `ReleaseEngine`. Both implement
`ReleaseContract` (`KeepsContract`), and `ReleaseRequests` with one worker
implements `ReleaseWorkflow` (`ServesWorkflow`); both are proved. `OneTimeTokens`
composes `StepUp`, which it extends, and an instance of `ConfirmationTokens`, and
is proved to implement each. What is proved of `LoginLimit` is in
`SessionsProofs`, which extends both. `Sessions`, `LoginLimit`, `AuditLog`, `MediaVault` and
`Archive` are checked alone: the first three share no row with any other, and
what the endpoints in `Archive` and `MediaVault` share with each other and with
the release is a memory's or a contact's existence, which each of them models.

In every module a request that is refused, that raises, that finds the database
locked or that dies with the server is `Abort` (`GiveUp` in `LoginLimit`): it
leaves nothing behind but what it had already committed. Definitions under the
word *Fault* are plausible mistakes; no specification uses them, and each
property is shown to fail when one of them takes the place of the definition
after it.

`overlapped` (`contended` in `MCLoginLimit`) is a history variable, in
`OneTimeTokens` and in most `MC*` modules. It remembers whether two requests
were ever in flight together, or a step was taken beside another's request, and
guards no action. Properties whose names end in `Alone` speak of the behaviours
in which it is still false; `SpendingBounded`, `ReplayBounded` and
`LoginsBounded` have a bound of one request for those and of all threads for
the others.

What the models leave out: bodies and titles but for their identity, ids,
reasons and addresses; `released_at`; other messages of the owner (messages
share nothing but the contacts); other accounts; the arithmetic of cryptography.
Contacts other than those the instance names, and contacts added during a
release, are left out of the release modules: a contact added later is one more
contact that has not confirmed yet. `TRUSTED_CONSENSUS` policies and verified
deaths are in the models although the API can create neither (`schemas.py` lacks
the former, no endpoint verifies a life event); `VerifyDeath` is external.
`Users`, `Owner` and `Admins` do not change, as no endpoint changes a role.

## 3. Runs

### Release

| Run | Shows | Bounds |
|---|---|---|
| `ServiceCalls` | the contract holds; whatever is due, a pending release or a reached quorum, ends in a release or a cancellation | 4 contacts (two who can vouch, the owner listed as a contact, one untrusted), 3 users, every condition with quorums 1 to 3, dates from both sides of UTC, clock 0..2; the session flushes |
| `ForcedCalls` | history, cancellation, one voice per contact and the condition (but for a date written west of UTC, early by its distance from UTC at most) survive `force_admin`; until it is used, the policy is frozen exactly in the pipeline and RELEASED is final (`Unforced` tells the two apart) | `transition()` called directly to all ten states, forced or not, up to 3 history rows before a direct call; one policy of each kind, the date written in UTC, east and west of it; the session does not flush |
| `OneByOne` | one request at a time does what one call does | 1 worker, all four conditions; the session does not flush |
| `Concurrent` | contract, bound on duplicates, freeze until somebody cancels | 2 workers, quorum of 2, contacts and workers symmetric |
| `QuorumUnflushed`, `StaleWriter` | violated, see below | |

Two workers are enough for every race found, since each has one stale reader
and one writer; two contacts and a quorum of two make the last confirmation
different from the first. The bound on the history limits only how often
`transition()` is called by itself: three direct calls reach, one after another,
every state of the graph but those at the end of the pipeline, which the
operations reach, or which forced calls jump to.

### Other components

Each run answers two questions at once: what survives every interleaving (and,
where the component keeps state in memory or on disk, a restart or a crash at
any step), and what is guaranteed to requests served one by one.

| Run | Always | Served alone | Bounds |
|---|---|---|---|
| `SessionsConcurrent` | a token is replaced at most once per request in flight | a password change ends all sessions; a login is one session | 2 workers, 2 passwords, 4 tokens (a token and three successors would fit), one of which may expire |
| `TokensConcurrent` | step-up tokens pay for their own user and scope; each token of either kind is used once per thread in every run of the server | used once in every run of the server; honoured in the state the token names | 2 workers, 2 users, 2 messages, contacts and states, one token of each kind, 1 restart, 5 uses of each, one more than the bound allows |
| `LimitConcurrent` | a bounded excess over the limit; a lockout ends | the limit, once for each time the list was emptied in the window and once more | 3 workers, limit 5 as configured by default, window 2, 2 successes or restarts in a window, time without end |
| `AuditConcurrent` | a tree of bounded width that leads back to the beginning; no entry without its change | the chain verifies | 3 workers, 5 entries, verification limit of 4, below the number of entries |
| `VaultConcurrent` | listed files are whole and of the type a compared extension names | the memories they are in exist | 2 workers, 2 owners with a memory each, 2 files, 3 contents, 2 extensions |
| `ArchiveConcurrent` | texts read back as committed last, and stay sealed for their owner | no title is lost; nothing is left to a deleted contact | 2 workers, 2 users, one with the four rows that are seeded, a fifth row of any kind, 2 titles, 2 texts |

Five attempts and three workers are enough for the excess: five failures fill
the list while two more requests are past the check. Two clearings in a window
let a whole share lie between two of them. In the archive every kind
of row exists from the beginning, in the form seeding gives it; the fifth row is
one of any kind in the form an endpoint gives it.

`CHECK_DEADLOCK FALSE` stands in every configuration: a message that has been
released is the end of it, and every bound ends behaviours.

### Disagreements between the code and what is said of it

Two runs end in a counterexample; `PROJECT.json` quotes the lines they refute.

* `QuorumUnflushed`: the server's sessions do not flush before a query
  (`database.py:19`), so the confirmation that completes the quorum is not
  counted, and the message waits for one more than its owner asked for.
* `StaleWriter`: a cancellation or a confirmation that loaded the message
  before its release writes its own state over RELEASED, while `is_released`
  stays true.

The models show others, which no run is spent on. Each follows from dropping a
qualification of a property that is checked:

| Code | Said | What happens | Seen in the model by |
|---|---|---|---|
| `release_engine.py:137` | comment at 136: force only for non-terminal states | `force_admin` leads out of RELEASED | `ReleasedForGood` with force |
| `release_engine.py:346` | V2_SECURITY.md:47 | a confirmation leaves SCHEDULED and ON_DEATH messages in VERIFICATION_REQUIRED for good | `Satisfied ~> Over`, even if the owner keeps asking |
| `release_engine.py:71` | test_attacker_release.py:200 | the zone of a date is dropped, a message is released early | `ReleaseHonoursCondition` with `now` for `now + West` |
| `release_engine.py:230` | test_attacker_release.py:437 | a contact confirms twice at once | `OneVoicePerContact` under `ReleaseRequests` |
| `release_engine.py:168` | V2_SECURITY.md:53 | a confirmation survives a cancellation | `CancelRevokes` under `ReleaseRequests` |
| `release_engine.py:165` | test_attacker_release.py:341 | a pending message has a thawed policy, after a cancellation | `FrozenUntilCancel` without its hypothesis |
| `main.py:390`, `main.py:303` | V2_SECURITY.md:125, SECURITY.md:9 | a session outlives the password; a token is rotated twice | the `Alone` properties without `overlapped` |
| `main.py:784`, `step_up.py:52` | test_attacker_release.py:307 | a step-up token is spent twice: by a race, after a restart | `SpendingBounded` with a bound of one |
| `release_engine.py:37` | comment there | a confirmation token is honoured twice, in the same way: no row of the database ever holds its nonce | `ReplayBounded` with a bound of one |
| `confirmation_tokens.py:110` | V2_SECURITY.md:126 | a message leaves the state a token names between the check of the state and the use of the token | `InExpectedState` |
| `main.py:268` | SECURITY.md:10 | concurrent logins exceed the limit | `LoginsBounded` without the threads beside the last |
| `rate_limit.py:26` (called at `main.py:276`), `rate_limit.py:9` | SECURITY.md:10 | a success or a restart empties the list: four failures, a success and four failures, one by one, are nine logins and eight failures of one window | `LoginsBounded` without the factor for `cleared` |
| `main.py:275` | SECURITY.md:10 | a login with the right password of a deactivated account counts as no attempt | `GiveUp` is in neither `attempts` nor `decided` |
| `audit.py:51` | V2_SECURITY.md:22 | two entries link to one, and verification fails | `VerifyAuditChain` |
| `main.py:393` | SECURITY.md:58 | a change is committed and its entry is not | `changes <= Cardinality(logs)` once nothing is in hand |
| `main.py:907` | DATABASE.md:130 | a file is attached to a deleted memory | `MemoriesExist` |
| `main.py:601` | | the later of two changes of a title is lost when it restores what the request had loaded | `LastTitleShows` |
| `main.py:750` | models.py:154 | a message names a contact that was deleted meanwhile, or never looked up | `LeftToNobody` |
| `main.py:482`, `main.py:688` | V2_SECURITY.md:39 | notes and life events (and files) are sealed under the key all rows share, not in an envelope | `SealedForGood` says nothing of them |
| `files.py:113`, `files.py:48` | V2_SECURITY.md:121, comment at files.py:18 | a `.gif` with other content; a "WebP" of fewer than 12 bytes | `FewContents` holds such a file |

### Fairness

Two properties need fairness; the code runs nothing by itself, so all progress
is somebody's request or time.

* `DueDelivered` is checked under weak fairness of the finalization by somebody
  entitled to it, a request that can be repeated until it succeeds. No fairness
  of the owner's request, of confirmations, cancellations, clock or deaths is
  assumed, so a reached quorum that only a further confirmation could carry on
  would be found.
* `LockoutEnds` is checked under weak fairness of `Tick`: time passes. Nobody is
  assumed to log in, to fail or to stop trying.

## 4. Proofs

Assumptions on the constants are named in the modules that declare them:
`PeopleAssumption`, `WorkflowAssumption`, `RequestsAssumption`,
`StepUpAssumption`, `ConfirmingAssumption`, `SessionsAssumption`,
`LimitAssumption`, `AuditAssumption`, `VaultAssumption`, `ArchiveAssumption`,
`NoneAssumption`.
They give types, say that trusted contacts are contacts and that markers like
`NoMemory` are not what they mark, and, where something is counted, that the
workers are finite. Nothing is assumed of the number of users, contacts, workers,
rows or policies, or of the quorums. Counting needs finite sets of rows, which
follow from the type invariant where the rows are a sequence.

**`ReleaseWorkflowProofs`**

* `TypeCorrect`, by one step per action.
* `ImplementsContract`: every call is a step of `ReleaseContract` or none.
  `Met` is monotone because clocks, deaths and the rows of confirmations only
  grow (`MetStays`); what satisfies the policy now makes `Met` true
  (`SatisfiedIsMet`); a step that sets `is_released` was guarded by the policy
  (`KeepsOrReleases`).
* `OneVoice` and `CancelTakesBack` from one invariant on the rows, preserved by
  `RowsNext`: the duplicate check is in the same step as the insert.
* `ReleasesHonourConditions`, stronger than the contract: the condition holds at
  the instant of the release, with people counted instead of rows
  (`VotesAreVoices`, from `OneVoice`) and the date the owner asked for. As the
  code drops the zone, a date written west of UTC may come early by its distance
  from UTC (`West`), and no more.
* `HistoryIsReplayable`: a path appended to a history that replays, from the
  state it ends in, replays.
* `FrozenWhileReleasing` and `ReleasedIsTerminal` hold for any `ForceArgs` until
  a transition is forced. The history only grows, so a step after which it is
  `Unforced` found it so (`UnforcedBefore`); until then `Consistent` ties the
  freeze flag and `is_released` to the state, which neither property does alone:
  the step that would break one is excluded by the other.

**`ReleaseRequestsProofs`**, for any number of workers

* `TypeCorrect`, with `Named`: a request that is past the lookup of its contact
  names one.
* `ImplementsContract`: strengthened by `Honest`, which says that a request
  whose path releases saw the condition satisfied, so `Met` held then and holds
  still, however long ago it was.
* `DuplicatesAreBounded`: `BoundInv` counts, for each contact, the valid rows
  together with the requests that have passed the duplicate check; a request
  passes only when there is no valid row, and turns into at most one.
* `FrozenBeforeCancellation`: `Steady` says of every request that what it loaded
  was right and that, if the message was in the pipeline then, it still is. So a
  column the request does not write, because it equals what it loaded, has the
  value it would have written.
* `OneAtATimeServesWorkflow`: as long as no two requests are in flight, every
  step is one call of `ReleaseWorkflow` or none; `OneWorkerServesWorkflow` draws
  from it that a server with one worker always does what one call does. The
  refinement mapping is the plain projection, so all the work is in the
  invariant `UpToDate`: in every phase, what a request holds was computed from
  the message, the confirmations and the contacts as they are still
  (`Current`). The commit is the step of the abstract operation; all the
  queries before it stutter. `SameEngine` identifies the graph's operators with
  those of the instance.
* `OneAtATimeReleasesForGood`: as long as no two requests are in flight, nothing
  leads out of RELEASED and `is_released` goes with it. `StaleWriter` shows that
  two requests are enough to void it.

**`OneTimeTokensProofs`**, for any number of users, threads and restarts

* `ServerImplementsBoth`: projected to the variables of one kind of token, every
  step of the server is a step of that kind alone or none. What is proved of
  step-up tokens alone (`GrantsArePaid`) carries over (`ServerGrantsArePaid`).
* `TokensAreSpentWithinBounds`: the grants of a token and the requests that hold
  it share a budget of `Width * (restarts + 1)`, and a token that would still
  pass verification has the share of one run of the server left
  (`WithinBudget`). While nothing has overlapped there is one request in flight
  (`Alone`), so the width is one. `TokensAreHonouredWithinBounds` is the same
  argument for callers that found the nonce unused (`ReplayWithinBudget`).
* `TokensAreHonouredInTheirState`: until a step has been taken beside another's
  request, a use of a token finds the message in the state the token names.
  `Awaited` says it of a caller that has checked the state and not yet used the
  token: the message is in that state still, as only another's step could have
  moved it (`InOrder`).

**`SessionsProofs`**

* `RotationsAreBounded` counts a token's successors together with the requests
  that present it (`Narrow`); a token with a successor is revoked and presented
  by no newcomer (`Rotated`).
* `PasswordsEndSessions`: unless two requests overlapped, whoever can refresh has
  proved the password the account has now. `Proven` says it of the usable tokens
  and of the requests that are about to issue one; a change of password holds
  the tokens it loaded, and no other can become usable before it commits.
* `LoginsAreSingleSessions`: unless two requests overlapped, a login has one
  usable token, however often it was rotated. A token remembers the login it
  descends from (`login`), so the argument needs no induction along the chain of
  rotations: `SingleLine` says that of the tokens that are usable or in the
  hand of a refresh, no two descend from one login.
* `LimitTypeCorrect` and `LoginsAreBounded`, for any limit, window and number of
  threads. `LimitInv` relates the list to the logins of the window: attempts are
  in the order of time (`InOrder`), so pruning drops a prefix (`PruneDrops`),
  and the attempts of the window are the logins decided since the list was
  emptied last (`Fits`). `Marks` says where in the history it was emptied before
  that, and that between two such marks there are no more logins than there was
  room for: since it was emptied, the attempts of the window together with the
  requests that passed the check stay within the limit and the threads beside
  the last. As time goes by, what was decided before a clearing leaves the
  window no later than the clearing (`MarksDrop`). `Prune` is written without
  recursion, as a function on the ranks of the recent attempts, and where the
  prefix ends is given by the least element of a set of numbers (`Least`), so no
  induction over the list is needed.

**`AuditLogProofs`**: `EntriesLeadBack` from `Ordered` (stamps are distinct, a
link is older than its entry, the stored entries have a latest one);
`ChainForksWithinBounds` counts the entries that follow one together with the
requests linked to it, and nothing follows the latest entry when a request links
to it (`Narrow`); `ChangesBehindEntries` by counting. `ChainVerifies`: unless two
requests overlapped, the log verifies, as the entries are one line in the order
of their stamps and a request in flight is linked to the last of it.

**`MediaVaultProofs`**: `RowsHaveFiles` from the files that uploads have in hand,
which are distinct and in no row (`FilesInHand`); `FilesAreWhatTheySay` from
`validate_upload` (`NamesInHand`). `MemoriesOfFilesExist`: unless two requests
overlapped, no file is left in a deleted memory, as the memory an upload looked
up is there until it commits, and a deletion knows every file of the memory.

**`ArchiveProofs`**: `TextsReadBack` and `TextsStaySealed` from `Readable`: each
kind of row is in one of the forms that the listing of its kind opens, whichever
endpoint wrote it (`Sound`), and a change under way loaded a memory of the same
owner (`Loaded`). `TitlesShow` and `MessagesAreDetached`, unless two requests
overlapped, from one invariant (`Fresh`): the title a change loaded is the one
that is stored, so the column it does not write has the value asked for, and a
deletion of a contact has found every message left to it.

*Served alone.* The theorems about requests served one by one are about the
specification with the history variable (`WatchedSpec`, `WatchedLimitSpec`,
`ServerSpec`), and state the very properties the runs check: what holds until
two requests first overlap holds of every behaviour up to that step. Their
invariants have the form `~ overlapped => ...`, and carry that one request at
most is in flight. The theorems of `ReleaseRequestsProofs` say the same with
`[]OneAtATime` as their hypothesis, which one worker guarantees.

Checked by TLC only: the liveness properties `DueDelivered` and `LockoutEnds`,
which this prover does not reach. Every invariant and every action property of
a passing run is also a theorem.

## 5. Not modelled

* The profile: `update_me` writes columns of one row that nothing else reads, as
  `update_memory` does in `Archive`.
* `assert_policy_mutable` and the helpers for files in envelopes
  (`core/crypto.py`), which nothing calls; `ReleasePolicy` and `Notification`,
  tables that nothing writes.
* The arithmetic of cryptography: keys, nonces, signatures and hashes are ideal.
* `assert_audit_immutable` and what else detects rows that were changed in the
  database by hand: no step of the program changes them.
* Configuration, schemas, middleware: declarations and headers, no state. The
  client: any client is a sequence of the requests the models allow.

## 6. Plan

1. Done: the release, from its tables to its interleaved requests; accounts,
   tokens of all kinds, the rate limit, the audit trail, media and memories, the
   archive of texts; proofs of every safety property the passing runs check.
2. Next models: a composition of the release requests with the step-up token
   that `/release` asks for; contacts added during a release.
3. Next theorems: what a cancellation leaves valid, per request in flight, as
   `DuplicatesBounded` does for confirmations; how many releases one step-up
   token can pay for once requests and tokens are composed.
