# auto-split, specified

TLA+ specifications, model-checking runs and machine-checked proofs for the
Telegram bot in `src/`: somebody sends a receipt, a voice note or a line of
text, a language model turns it into a draft expense, the payer confirms it with
a button, and the bot creates the expense on Splitwise.

The source is the reference throughout. Every definition that models code has
its file and lines in the `map` of `PROJECT.json`.

Contents: 1 the system, 2 the modules, 3 the runs, 4 disagreements found,
5 the proofs, 6 what is left out, 7 the plan, 8 how to run it.


## 1. The system

One asyncio process (FastAPI under uvicorn, started by systemd) with a Supabase
database. Whatever happens between two `await`s is atomic; at an `await` any
other task may run, and the process may die at any of them.

| Component | State it keeps | Operations | Talks to |
|---|---|---|---|
| Webhook (`telegram/webhook.py`) | none; no update id is remembered | check the secret, turn away anonymous and uninvited senders, run a handler, answer 200 whatever happened | handlers and pipeline |
| Capture (`services/expense_pipeline.py`, `handle_incoming_message` to `_finalize_capture`) | locals of one message; the conversation id in a ContextVar | identify, record membership, load token, parse, resolve payer and names, save draft, show it | users, groups, known people, parser, expenses, Telegram |
| Draft lifecycle (`handle_callback`, `handle_confirm`, `handle_cancel`, `db/expenses.py`, the sweep in `main.py`) | `expenses_pending`, `expenses_completed`, ids being marked abandoned | confirm, cancel, `mark_completed`, sweep after ten minutes | Splitwise, Telegram, Langfuse |
| Name resolution and roster (`services/group_context.py`) | none | who is eligible, which person a name means | groups, users, known people |
| Shares (`_build_sw_splits`, `ai/schema.py`) | none | cents per participant, reconciled to the total | Splitwise client |
| Splitwise client and retries (`splitwise/client.py`, `retry.py`) | attempt count | `create_expense`, read friends, back off | Splitwise |
| Splitwise OAuth (`splitwise/oauth.py`, `splitwise/state.py`) | nothing stored: the link carries a signed, expiring state | make a link, `oauth_callback` | users, known people, Splitwise |
| Users and tokens (`db/users.py`, `splitwise/storage.py`, `splitwise/tokens.py`) | `users`: identity, encrypted token, Splitwise id | identity refresh, save token, load token | everybody |
| Known people (`db/known_people.py`, `services/known_people_sync.py`) | a cache of Splitwise friends that only grows | sync, list | OAuth, `/start`, capture |
| Groups (`db/groups.py`) | `group_members` | record who spoke, list | capture |
| Parser, transcription (`ai/`) | locals of one reading | transcribe, ask, ask once more strictly, validate, roll back a date to come | Gemini, Groq |
| Telegram sends (`telegram/bot.py`, `keyboards.py`, `files.py`) | none | send, edit, download, each retried | Telegram |
| Migrations (`scripts/migrate.py`, `db/migrations/`) | the schema, `schema_migrations`; the list of one run | bootstrap, read what is applied, apply what is pending | Postgres |
| Observability, configuration, set_webhook | marks in Langfuse; settings | | |

### How they interact

* One webhook task for each *delivery*. Telegram repeats an update it has seen
  no 200 for, so one tap or message may be handled twice, also at the same time.
* A Confirm reads `expenses_pending`, loads the payer's token, calls Splitwise in
  a thread, and only then copies the row into `expenses_completed` and deletes
  it: three calls, no transaction. A Cancel and the sweep delete the same row.
  There is no lock, and no state column says "being posted".
* A Confirm uses the Splitwise ids resolved at capture and the token stored at
  confirmation.
* A payer may connect another account in between: the draft keeps the ids of the
  old one.
* The identity refresh of every message and `oauth_callback` write the same row
  of `users`, disjoint columns of it.

### What is hard here, and what makes each part correct

The 39 hazards, each at its line, are in `PROJECT.json`. In short:

| Part | Hard because | Correct if |
|---|---|---|
| Draft lifecycle | taps, redeliveries, the sweep and crashes interleave; every call may fail after it took effect | only the payer posts, only from a live row; "Added" is true and final; a duplicate, and an expense of a cancelled draft, have a cause one can name; every row goes; every tap is answered and told about; every conversation ends; buttons go only with a verdict |
| Retries | some failures happen before the effect and some after it | nothing that may have taken effect is sent again |
| Name resolution | names are short, alike, with or without punctuation; two pools; a pool may be missing | whoever is charged is the one person the name means, or nobody is |
| Shares | rounding, shares off by two percent, amounts of sub-cents | the splits balance to the cent; nobody is charged other than shown |
| OAuth | links can be followed late, twice, as another account; callbacks overlap; keys rotate | a token stays beside its own id and its own user; success pages are true; nobody is disconnected |
| Capture | long awaits between reads; every service may fail; redelivery | drafts are for connected payers; buttons belong to saved rows; silence has a cause; every message is handled; whoever is kept out leaves no trace |
| Reading | a model answers anything, or nothing; midnight passes while it is awaited; a loop over years | each ask has its own retries; no date is to come, none is older than it must be, and the day the prompt named stays; a photo survives its voice; the reading ends |
| Migrations | two runners from different checkouts; death between two statements; a stale list | the schema is what is recorded, in order; nothing is tried too early; success means up to date; a run ends |


## 2. The modules

```
ExpenseContract        what one receipt is promised (abstract)
   ^ refined by
ExpenseLifecycle  <--  ExpenseProperties  <--  MCExpenseLifecycle
   ^ ExpenseLifecycleProofs      ^  <-- ExpenseErrors   <--  MCExpenseErrors
                                 ^  <-- ExpenseHistory  <--  MCExpenseHistory
                                           ^ ExpenseHistoryProofs

NameResolution, SplitShares  <--  DraftResolution  <--  MCDraftResolution
                                       ^ DraftProofs

UserRows  <--  OAuthConnect     <--  MCOAuthConnect
   ^      <--  CapturePipeline  <--  MCCapturePipeline
   UserRowsProofs  <--  OAuthConnectProofs, CapturePipelineProofs

ReadingContract        what a message is to transcription and parser (abstract)
   ^ refined by                                  ^ kept, for each delivery, by
ReceiptReading  <--  MCReceiptReading            CapturePipeline
   ^ ReceiptReadingProofs

SchemaVersions         the database goes from version to version (abstract)
   ^ refined by
SchemaMigrations  <--  MCSchemaMigrations;  SchemaMigrationsProofs
```

**ExpenseContract** says what the bot promises about a draft without saying how:
it opens once, is posted only while open and only on the payer's word, closes
once, and our book names only expenses that exist. It does not say *how many*
expenses an open draft may leave: the code takes no lock, and what makes that
number more than one is the subject of `ExpenseHistory`.

**ExpenseLifecycle** has an action for every await of `handle_callback`,
`handle_confirm`, `handle_cancel`, `mark_completed` and the sweep.

| State | In the code |
|---|---|
| `pending`, `overdue`, `completed` | the two tables and `expires_at < now` |
| `inflight`, `posted` | `createExpense` requests on the wire, and what Splitwise holds |
| `keyboards`, `said` | which messages still have buttons, what people were told about each tap |
| `tapped`, `acked`, `pc`, `attempt`, `text` | taps, 200s, and each task's locals |
| `sweeping`, `marking`, `outcome` | whether `_sweep_loop` runs, the ids it holds, the marks in Langfuse |

| Action | In the code |
|---|---|
| `SaveDraft`, `ShowDraft` | `create_pending` and the confirmation message |
| `FindGone`, `Refuse`, `Admit`, `HandlerRaises` | `get_pending` and the owner checks of both handlers |
| `NotConnected`, `Unusable`, `LoadToken` | the checks before the request |
| `SendRequest`, `ConnectFails`, `AbortsAfterSend`, `TimesOut`, `Reject`, `GetExpense` | the ways `create_expense` under `retry_async` can end |
| `CopyPending`, `PendingVanished`, `InsertCompleted`, `DeletePending`, `MarkCompletedRaises` | `mark_completed`, call by call |
| `CancelDelete` | `handle_cancel`; the failed delete is logged and "Cancelled." said |
| `EditMessage`, `EditFails`, `SafeSend`, `Finish` | `_edit_or_send`, `mark_conversation_end`, the 200 |
| `Sweep`, `SweepFails`, `MarkAbandoned` | one turn of `_sweep_loop`: its DELETE works, or raises with or without effect and the loop goes on |
| `Accept`, `Lose`, `Crash` | Splitwise, the network, the process |

`Faults` names the calls that may fail. A database or Telegram call that raises
may have had its effect or not; `connect` fails before anything was sent,
`abort` and `timeout` after it; `repeat` is an answer to or from Telegram that is
lost or late, so that an update is delivered again while its handler runs, or a
message is sent twice. `Fit` says what a stored row may turn out to be
at Confirm (usable, no longer valid, with unmatched names). `Copies` are the
messages a draft's keyboard is on: more than one if `send_message` was repeated
after a lost answer, none if it could not be sent or if `create_pending` raised
after the row was saved; an edit strips one of them. No action waits for
another handler: deliveries of different taps overlap in every run, those of one tap
where `repeat` is a fault.

**ExpenseHistory** and **ExpenseErrors** add variables that no action reads: which
deliveries of one draft ran beside each other (`met`), gave up on an answer
(`unanswered`) or failed to delete their row (`kept`); which handlers an error ended
(`raised`), and which rows the sweep deleted without learning their ids
(`forgotten`). They let properties name a cause.

**NameResolution** is `_normalise`, `find_user_by_name`,
`find_known_person`, `resolve_split_names`, `_resolve_payer` and
`eligible_split_members` over abstract names: `Norm` gives the normal form,
`Longer` the keys another key begins. **SplitShares** is `_build_sw_splits` and
the check of shares, in integers: tenths of a cent, because the parser may
return sub-cent amounts, and shares in `Scale`-ths. **DraftResolution** puts
both together with the stored row, while people connect, and connect other
accounts, between capture and Confirm (`account`, `Connect`).

**UserRows** is the `users` table and the encryption key: `Named`
(`upsert_user`), `WithToken` (`set_user_token`), `Connected` and `Unreadable`
(`load_user_token`). `RowsSpec` is the table by itself, as whoever uses
`db/users.py` may write it: the specification both of its users implement.
**OAuthConnect** adds the links, the approval, and
`oauth_callback` as `Arrive` (state verified), `Exchange`, `Save`, `Sync`,
with reloads and restarts under another key. **CapturePipeline** is
`handle_incoming_message` await by await, for photos, voice notes, texts,
`/start`, questions, greetings and messages to ignore, in a DM or a group. There
a whole OAuth callback is the one step `Connect`: the column update is what the
other tasks can see of it, by `ConnectImplementsRows` (section 5). `Dispatch` is
the webhook's gate: `Proxies` are the bots that stand for anonymous senders,
`Invited` is the allowlist.

**ReadingContract** is what `CapturePipeline.Listen` and `Parse` take for one
step each: a message to listen to becomes one to read or an answer, one to read
becomes an expense or an answer, and a photo is never answered with the hint to
write more. `CapturePipeline` keeps it for each delivery (`ReadsAsContracted`), and
**ReceiptReading** refines it:

| Action | In the code |
|---|---|
| `Transcribed`, `NoTranscript` | `transcribe_voice`, and what both callers make of its failure |
| `Prompt` | `build_user_prompt`, which names today's date |
| `CallFails`, `CallRefused` | `_generate` under `retry_async`: errors that may pass, and others |
| `InvalidAnswer`, `ValidAnswer` | `parse`: the second, strict ask; validation; the confidence threshold |
| `StepBack`, `RollBack` | the loop of `_most_recent_on_or_before` |
| `Midnight` | `date.today()` changes |

Dates are records of year, month and day under the rules of the calendar, leap
years included, because the loop depends on which dates exist.

**SchemaMigrations** is `migrate.py` statement by statement: `Launch`,
`Bootstrap`, `Fetch`, an `Execute` for each statement that takes a lock and a
`Commit` for each pending file, `Raise` for what Postgres refuses, `Fail` for a
process that dies or a connection that is lost, a commit under way included, the
bootstrap's too. Each of the four files is what it adds, the tables it cannot do
without, and the locks its statements take, in their order; `taken` counts those a
runner holds until its commit. **SchemaVersions** is what any number
of runners promise together: one version after the other, none of them taken back.

Definitions preceded by "Mutant" are deliberate bugs (`Admit_TrustsKeyboard`,
`TimesOut_Retried`, ...). Nothing uses them: `PROJECT.json` names, for each
checked property, the one that must break it.


## 3. The runs

### What each run asks

| Run | Question | Properties |
|---|---|---|
| `all_faults` | payer confirms, sender cancels, a guest taps, the sweep runs, the bot crashes, and every service fails in every way: is the contract kept, and who loses their buttons? | `TypeOK`, `AddedIsReal`, `Contract`, `RowLeavesForCause`, `LastButtonsForCause` |
| `overlap` | a Confirm and a Cancel on two copies of the message, each delivered twice, at the same time or one after the other, with timeouts, the sweep and a crash: what does a duplicate take, and an expense of a cancelled draft? | `DuplicatesHaveCause`, `CancelledPostsHaveCause`, `AddedIsSettled` |
| `slow` | a slow Splitwise, a database that fails in every call, the sweep's included, a crash and the redelivery of what it cut off: does one delivery post once, is every tap answered and told about, does every row go and every conversation end? | `OnePostPerTask`, `RowsDoNotLeak`, `ConversationsEnd`, `EveryTapAnswered`, `EveryTapIsTold` |
| `draft` | who is charged, and how much, for every roster of four people and five names, also when the sender has connected another account before the Confirm, or the friends cannot be read? | `DraftTypeOK`, `RejectedForCause`, `ChargedAsShown`, `ChargesWhoWasNamed` |
| `connect` | callbacks, reloads, refreshes and restarts interleave: whose token is where? | `ConnectTypeOK`, `TokenIsOfItsAccount`, `SuccessIsReal`, `FriendsAreOwn`, `StaysConnected` |
| `capture` | messages of invited, uninvited and anonymous senders, delivered twice, accounts connecting, everything failing: which drafts and which answers come out? | `CaptureTypeOK`, `SenderIsKnown`, `DraftsArePaid`, `SilentForCause`, `KeptOutLeavesNoTrace`, `EveryMessageIsHandled` |
| `parser` | the voice is lost, calls fail, answers are invalid, dates have not come, midnight passes: what is read and dated how, how often is the model asked, does it end? | `ReadingTypeOK`, `EachAskHasItsRetries`, `LatestOfItsName`, `TodayIsKept`, `VoiceFailsSoftly`, `ReadingEnds`, `KeepsReadingContract` |
| `migrate` | two runners of different age race, wait for each other's locks, die and are run again: what is the schema, and what does success mean? | `MigrationsTypeOK`, `SchemaIsRecorded`, `NeverTooEarly`, `DoneMeansUpToDate`, `RunsEnd` |

A run checks a strong property, and not what follows from it: `LatestOfItsName`
lets no expense be dated in the future. That buttons are only ever shown for a saved
row (`ButtonsAreSaved`) is part of the inductive invariant of the capture. The
invariants that exist to be inductive (`Authorised`, `SentOnce`, `CausesKnown`,
`InOrder`, `RecordedInOrder`, `Underway`) are not checked in these runs, nor are the
measures of progress (`HandlersRunDown`, `ReadingRunsDown`, `RunsWindDown`,
`NoStandstill`) that the liveness properties of these runs rest on, and the abstract
specifications `RowsSpec` and `VersionByVersion`. All of these are proved (section
5); each was model-checked on the instance of its run before.

Four more runs, `v_*`, show statements of the repository that the code does not
keep (section 4).

### What the conditional properties do *not* say

* `DuplicatesHaveCause` and `CancelledPostsHaveCause` do not say that a draft is
  posted once. The code takes no lock: two overlapping deliveries of a Confirm both
  find the row and both post it, a Cancel beside a Confirm says "Cancelled." of an
  expense that is made, and a Confirm that is killed, times out or cannot delete its
  row leaves that row to be confirmed again. That is a limit of the design, not a
  contradiction of anything the repository claims. The two properties say that
  nothing else does it; in `overlap` all of these causes occur but failing deletes,
  which the theorems cover (section 5).
* `OnePostPerTask` needs that `abort` is not a fault (see `v_retry`).
* `AddedIsSettled` excuses a delete that failed.
* `LastButtonsForCause` counts a failed Confirm as a verdict: after "Try again in
  a minute" (`expense_pipeline.py:1300`) the buttons are gone, and the row waits
  for the sweep.
* `ConversationsEnd` is about rows still there after the last crash: the ids of
  swept rows are in memory only (`main.py:39`), so a crash between the delete and
  the mark leaves those conversations without an end, and so does a DELETE whose
  answer, with the ids, is lost.
* `EveryTapIsTold` excuses a handler that an error of the database ended: the webhook
  logs it and answers 200.
* `ChargesWhoWasNamed` judges a name among everybody there was to choose from, the
  friends included though they could not be read, and means the account each person
  had *when the draft was drawn up*. A payer who has connected another account since posts with the new
  token a draft whose "self" is the old account.
* `EveryTapAnswered` and `EveryTapIsTold` excuse a handler whose request got
  lost: `create_expense` sets no timeout, so it waits until the connection ends.
  `EveryMessageIsHandled` and `ReadingEnds` excuse a call of Splitwise or Gemini
  that is waited for without end.

### Bounds, and why they are enough

| Run | Bounds |
|---|---|
| lifecycle runs | `Drafts` = 1, `Users` = payer, sender, guest; `Taps` = a Confirm of the payer and a Cancel of the sender; `Copies` = 1 message |
| `all_faults` | and a guest's Cancel; `MaxDeliveries` 1, `MaxAttempts` 2, `MaxCrashes` 1; any `Fit` (1.9 million states) |
| `overlap` | the two taps on 2 copies; `MaxDeliveries` 2, `MaxAttempts` 1, `MaxCrashes` 1, the faults `repeat` and `timeout` (2.6 million) |
| `slow` | `MaxDeliveries` 2, `MaxAttempts` 2, `MaxCrashes` 1, the faults `connect`, `timeout`, `reject` and `supabase`; a second delivery comes only after the first was killed (140 thousand) |
| `draft` | 3 users, one of them with two accounts, 1 friend who is one of them under another name, 7 spoken names, `Scale` 50 (two percent is exactly one part), amounts from a tenth of a cent to ten dollars (1.4 million) |
| `connect` | 2 users, 2 accounts, 2 links, `MaxVisits` 2 for each code, 2 keys, `MaxRestarts` 1; users and keys are symmetric (safety only) (1.3 million) |
| `capture` | 2 invited users, one who is not, a proxy; 1 account, 2 keys, `MaxMessages` 1 of any kind, `MaxDeliveries` 2, `MaxRestarts` 1 (800 thousand) |
| `parser` | every kind of message, `MaxAttempts` 3 as in the code, `MaxMidnights` 2, on 4 days around the end of February, New Year's Eve and after 2100, with 11 dates the model may read (150 thousand) |
| `migrate` | 2 runners, checkouts of 2, 3 or 4 files, `MaxLaunches` 4, `MaxFaults` 2, every lock of every file a step of its own (150 thousand) |

Drafts share no state but the sweep, which treats each row alike, so one is
enough; the proofs hold for any number. Two deliveries are the least that overlap, and
a crash with a second delivery is the least that repeats work; a third delivery
races with the same steps. Three taps of three people cover every row of the
ownership checks; two attempts are the least that retry, and the proofs
hold for any number. Two copies are what one lost answer leaves. From 29 February
2104 the roll back goes to 2096, past 2100, a century that is no leap year:
every branch of its loop. Four launches let each runner be overtaken once and come
back. The `draft` roster lets names be equal, begin one another,
differ in punctuation only, or normalise to nothing, and lets two ids coincide.
A deadlock is not an error in any run: these systems stop once every tap is
handled, every draft judged or every message answered.

### Fairness, and why the code justifies it

* `WF(Progress(t))`, `WF(Own)`: the event loop runs a task that can go on.
  Supabase, Telegram and Groq are called with the timeouts of their clients, so
  that their calls end. Splitwise and Gemini are called without one: `Progress`
  leaves out `TimesOut` and `AbortsAfterSend` in the lifecycle, `SyncFriends` and
  `Parse` in the capture, and `Own` all calls of a reading, because nothing obliges
  such a connection to answer or to break.
* `WF(Deliver(t))`: Telegram repeats an update without a 200.
* `WF(Accept(r))`: Splitwise deals with what reached it; it may be lost instead.
* `WF(Expire(d))`, `WF(Sweep)`, `WF(MarkAbandoned(d))`: time passes, and not every
  tick of a sweep loop that is alive fails. That the loop stays alive is not
  assumed: a tick that raises is `SweepFails`, which keeps `sweeping` because
  `_sweep_loop` catches every `Exception`, and the mutant of `RowsDoNotLeak` is the
  loop without the `except`.
* `WF(ShowDraft(d))`: the same task goes on from the saved row to the message.
* `WF(Step(r))` of `SchemaMigrations`: the script waits for nothing but Postgres,
  and a lock is free when the transaction that holds it ends.
* None for users (`SaveDraft`, `Tap`, `Connect`, `Launch`), for the clock
  (`Midnight`), or for faults alone.

`OAuthConnect` and `DraftResolution` have no liveness property: nothing is
promised of a browser.


## 4. Where the code and its words disagree

| Run | Said | Done |
|---|---|---|
| `v_abandoned` | `db/expenses.py:178`: swept rows are "genuinely abandoned", a confirmed one "never reaches the sweep" | `get_pending` ignores `expires_at`, and the row goes only after the expense exists: the sweep can come first and mark a posted expense abandoned |
| `v_retry` | `splitwise/client.py:183`: connection errors happen before Splitwise sees the request, "so a retry can't double-create" | `requests` raises `ConnectionError` also for a connection dropped while the answer is awaited; the expense is sent again |
| `v_payer_paid` | `expense_pipeline.py:1407`: "We assume the payer paid the full amount" | the *first split* is taken for the payer (line 1447), whatever order the parser chose |
| `v_sender_name` | `expense_pipeline.py:910`: the sender's own name is still the sender; names compare without punctuation (`group_context.py:447`) | `_resolve_payer` compares the sender's names literally and everybody else's without punctuation: An-n named as "Ann" loses the expense to Ann |

Observed while modelling, and not claimed by a run: "Try again in a minute."
(`expense_pipeline.py:1300`) comes with the edit that strips the keyboard, so that
the one message left to try with has no buttons (the lifecycle counts it as a
verdict). The comment of `0001_init.sql:9`, "Splitwise API ids fit comfortably" in
INTEGER, is contradicted by `0003`. `date.today()` is the server's day: for a
sender east of it a receipt of this morning is rolled back a whole year
(`parse.py:312`). A photo is captured whatever the confidence of the parser
(`_process_expense_capture` does not ask). A sender taken off the allowlist can
no longer confirm a draft. `amount_cents` of
`expenses_completed` is always NULL, because the stored draft has the amount as
a string (`db/expenses.py:145`). Names in non-Latin scripts normalise to nothing
and cannot be matched. `find_known_person` can be made ambiguous by friends who
are long gone, because the cache is never pruned (`known_people.py:43`). After a
change of `TOKEN_ENCRYPTION_KEY` every message of a connected user raises,
`/start` included, so that no new link is sent (`SilentForCause` counts this as
a cause, `trouble` = "key"). A callback that is late saves over a newer account.
A reloaded callback shows the failure page to somebody who is connected. Two
participants with one Splitwise id, and amounts with sub-cents, are refused by
Splitwise (the two exceptions of `RejectedForCause`). `upsert_group` has no
caller.


## 5. The proofs

TLAPS proves the following for *every* value of the constants. The assumptions are
the named ASSUMEs of the modules, which give the constants their types
(`LifecycleAssumption`, `NamesAssumption`, `ScaleAssumption`, `AccountAssumption`,
`RowsAssumption`, `ConnectAssumption`, `CaptureAssumption`, `ReadingAssumption`,
`MigrationsAssumption`). TLC evaluates each of them in the runs.

| Theorem | States | For |
|---|---|---|
| `TypeCorrect`, `AlwaysAuthorised`, `AddedIsAlwaysReal` | `TypeOK`, `Authorised`, `AddedIsReal` | all faults |
| `LifecycleKeepsContract` | `Spec => Contract`: the lifecycle implements the abstract contract | all faults |
| `RowsLeaveForCause`, `LastButtonsGoForCause` | `RowLeavesForCause`, `LastButtonsForCause` | all faults |
| `DuplicatesAlwaysHaveCause`, `CancelledPostsAlwaysHaveCause`, `AddedStaysSettled` | `DuplicatesHaveCause`, `CancelledPostsHaveCause`, `AddedIsSettled`, of `HistorySpec` | all faults, every overlap |
| `AlwaysSentOnce`, `RetryIsSafe` | `SentOnce`, `OnePostPerTask` | `"abort" \notin Faults` |
| `HandlersAlwaysRunDown` | `HandlersRunDown`: a delivery takes 9 steps and two for each attempt at most | all faults |
| `OnlyCrashesForgetEnds` | `OnlyCrashesForget`: the safety part of `ConversationsEnd` | no `supabase`, no `langfuse` |
| `AckedIsAlwaysTold` | `AckedIsTold`, tap by tap: the safety part of `EveryTapIsTold` | no `supabase`, `token`, `telegram` |
| `DraftTypeCorrect`, `NobodyElseIsCharged` | `DraftTypeOK`, `ChargesWhoWasNamed` | any roster |
| `AlwaysChargedAsShown`, `RejectionsHaveCause` | `ChargedAsShown`, `RejectedForCause` | any amount, any shares and any number of them |
| `YesMeansTheSame`, `QuestionsAlwaysAgree` | "can I split with" and a draft of the same moment mean the same person, but for the asker | any roster |
| `RowsStayWhole`, `TableKeepsConnections` | of `RowsSpec`: no half connections, and `StaysConnected` | any users, accounts and keys |
| `ConnectImplementsRows`, `CaptureImplementsRows` | `Spec => RowsSpec`, for both users of the table | all faults |
| `ConnectTypeCorrect`, `TokensMatch`, `SuccessIsAlwaysReal`, `FriendsAreAlwaysOwn`, `ConnectionsLast` | the five properties of `connect` | all faults |
| `CaptureTypeCorrect`, `SenderIsAlwaysKnown`, `DraftsAreAlwaysPaid`, `ButtonsAreAlwaysSaved`, `SilenceHasCause`, `KeptOutNeverTraced` | the five invariants of `capture`, and `ButtonsAreSaved` | all faults |
| `CaptureKeepsConnections` | `StaysConnected`, of the pipeline | all faults |
| `CaptureReadsAsContracted` | `ReadsAsContracted`: each delivery keeps `ReadingContract` | all faults |
| `CaptureHandlersRunDown` | `HandlersRunDown`: a delivery takes 14 steps at most | all faults |
| `ReadingTypeCorrect`, `RetriesPerAsk`, `ReceiptsAreNotFromTheFuture`, `RollBackIsLatest`, `TodayIsAlwaysKept`, `VoiceAlwaysFailsSoftly` | `ReadingTypeOK`, `EachAskHasItsRetries`, `NeverInTheFuture`, `LatestOfItsName`, `TodayIsKept`, `VoiceFailsSoftly` | every date, any number of attempts and midnights |
| `ReadingRefinesContract` | `Spec => KeepsReadingContract`: a reading implements the step `CapturePipeline` takes it for | the same |
| `ReadingAlwaysRunsDown` | `ReadingRunsDown`: a reading takes 11 steps and two for each attempt at most | the same |
| `MigrationsTypeCorrect`, `SchemaMatchesItsRecords`, `RecordsHaveNoGap`, `MigrationsNeverTooEarly`, `DoneIsUpToDate` | `MigrationsTypeOK`, `SchemaIsRecorded`, `RecordedInOrder`, `NeverTooEarly`, `DoneMeansUpToDate` | any runners, checkouts, launches and faults |
| `RunnersImplementVersions` | `Spec => VersionByVersion`: the runners implement `SchemaVersions` | the same |
| `RunnersNeverStandStill`, `RunsAlwaysWindDown` | `NoStandstill`, `RunsWindDown`: a run takes 26 steps at most | the same |

### The arguments

**Lifecycle.** None of the safety properties is inductive. `AddedIsReal` alone
says nothing of a task about to tell of success; `Authorised` adds what each
step of a task implies: past the payer check it carries its payer's Confirm,
past `create_expense` its own request is on Splitwise, and whoever holds the
words "added" has an expense behind them. It is proved with `TypeOK`, one step
for each action.

**Refinement.** A draft is *open* while its row can be read, a task that has
read it may still send, or a request is under way (`Postable`). No step makes a closed
draft open again; `Accept` maps to `Post`, `InsertCompleted` to `Record`,
`SaveDraft` to `Open`; a last deletion, an answer that gives up, a lost request,
the sweep and a crash map to `Close` of the drafts they close; all others
stutter. `RowLeavesForCause` follows from the same invariant.

**One post.** `SentOnce`: a delivery that has not sent has no expense, so a
retry only ever follows an attempt that sent nothing. Across deliveries the code has
only the row to tell a draft that is open from one that is settled, and
`CausesKnown` says what the row is worth, delivery by delivery. One that has sent a
request is on its way to the delete, or the row is gone, or it was cut short
(`RowFollows`). So whoever finds the row and is let past it found no request of
another delivery, and no announced cancellation, without its cause (`StartsClean`);
and whoever is about to say "Added" or "Cancelled." has seen the row go, or failed
to delete it, and has beside every request it did not see a meeting or a delivery
cut short (`FinalWords`, `SaidForGood`). `MeetingsNoted` makes two deliveries that
run at once a cause for each other before either of them acts. Nothing is assumed of
overlaps, faults or crashes: every step of every handler, of Splitwise, of the sweep
and of a crash keeps this invariant.

**Buttons.** `Spoken` says that an edit on its way carries a verdict unless the row
is gone.

**Charging.** `TheOnlyOne`: a match that is unique is the one any candidate must
be. By cases on exact and prefix match, a resolved name denotes its person and
nobody else there was to choose among: a name that fits a member never gets to the
friends, so that a pool without them loses names and gives none to somebody else.
The invariant `RowIsRight` carries this fact in the stored row to the request,
whoever connects, and with whichever account, meanwhile. `YesMeansTheSame`
compares two matchers: the question looks at everybody but the asker, the draft at
the asker too, so that a name both of them resolve is one of fewer people or of
more. The asker is the only one who can make the difference: after "Yes - you can
split with" a draft may still find the name ambiguous and charge nobody, or charge
the asker.

**Shares.** The sums are `Total(f)`, a fold over a finite domain, and nothing of
them holds by unfolding. The library's induction takes an operator as a parameter,
so the proof has an induction of its own, stated with a set in place of the
operator (`SubsetInduction`, from the library's well-founded orders): a family
with the empty set in it, and with every set whose rest it has, has every subset
of a finite set. With it `Total` is linear, monotone, and off by half a cent for
each term that is rounded. The first participant is owed what the others leave
(`OwedIsWhole`), so a draft balances whatever the shares were; the other
participants are half a cent off their share at most, and the first one by half a
cent for every other and for the amount, plus the two percent the shares may miss
the whole by. This is the bound of `ChargedAsShown`, and it is one on the
difference only: where the first share is zero and the others overshoot the whole,
the first participant owes a negative amount (`expense_pipeline.py:1440`).
`SharesAreRight` says of the stored row what the check of `ParsedExpense`
established.

**The users table.** `RowsSpec` has two writes, of disjoint columns. That both of
its users implement it is shown step by step, for their inductive invariants:
`Save` is the one step of a callback that is not a stutter, and it happens for a
user and an account that exist. So a callback cut short, repeated or overlapped by
another is, to whoever reads the table, a single `SaveUserToken` or nothing, which
is what `CapturePipeline` takes it for; and `ConnectionsLast` and
`CaptureKeepsConnections` are one theorem about the table,
`TableKeepsConnections`, used twice.

**Connecting.** `ConnectInv` adds to the properties what each visit stands on
(`Backed`): a visit past the exchange has its code redeemed for the owner of its
link, one past the save has a connected owner. The step relation is split in what
links, rows, users and visits may do, so that each action needs to be looked at
once. **Capturing** rests on `CaptureInv`: rows stay whole (a token and an id, or
neither), and, at each step, what the task has established about its sender, its
pool and its draft; `KeptOutLeavesNoTrace` follows because every task past the
gate is of somebody let in. `CaptureReadsAsContracted` maps each delivery to a
phase of `ReadingContract`; with `ReadingRefinesContract` the detailed reading may
stand where the pipeline has its two steps.

**Reading.** `Counted` ties the attempts to the calls made in the current ask.
`Rolling` says that the day an answer was validated on is not to come, and that
every year passed over in the roll back had no such day: the loop's invariant,
from which the date it stops at is the latest. `InOrder` says that the answer is
validated no earlier than the day the prompt named, so that what had come then has
come (`TodayIsKept`). The refinement maps a reading to
one phase; all but the last step of it stutter.

**Migrating.** `SchemaIsRecorded` and `RecordedInOrder` need `Behind`: what a
runner does not have to apply any more is recorded, however old its list. So the
file it is at comes after recorded ones only, and what that file alters is there.
From the same invariant, what is recorded is 1 to n for some n, and a commit
either is that of file n + 1 or repeats one: to the outside every behaviour of the
runners is one of `SchemaVersions` (`CommitUpgrades`).

**Progress.** Each loop of the code has a measure: the attempts a `retry_async`
has left, the years `_most_recent_on_or_before` may still pass over (eight at most
between two leap days, across a century that has none), the files a run still has
to apply. `StepsLeft` and `StepsToGo` add the steps outside of the loops. A step
of the task lowers its measure, which is never below zero, and a step of anybody
else leaves it. So a task of `EveryTapAnswered`, `EveryMessageIsHandled`,
`ReadingEnds` or `RunsEnd` that goes on at all comes to its end, whatever the
others do; that it goes on, and that a repeated delivery follows a crash, is what
fairness says. `NoStandstill` is about the locks, which a run takes statement by
statement and keeps until its commit. Every file takes them in one order of the
tables (`Rank`, `LocksInOrder`), so whoever is waited for wants only a lock of a
higher rank than the one it holds (`WaitsUpwards`): a chain of waiting runners
climbs, and somebody at its end can go on. The mutant of `RunsEnd` is two files that
take two tables in different orders.
`OnlyCrashesForget` does the same for `ConversationsEnd`: the end of a
conversation is owed by the row (to the sweep), by the handler that deletes it or
by the sweep that has, and it passes from one to the other without a gap, unless
the process dies. `AckedIsTold` rests on `WordsReady`: whoever is about to answer
has words, and whoever is about to return has said some about this tap.

### What only TLC shows

Liveness (`RowsDoNotLeak`, `ConversationsEnd`, `EveryTapAnswered`,
`EveryTapIsTold`, `EveryMessageIsHandled`, `ReadingEnds`, `RunsEnd`): temporal
reasoning with ENABLED is out of the prover's reach. That the tasks run down, and
that nothing on the way is forgotten, is proved; that a task which can go on does,
and that the sweep comes, is the fairness TLC checks them under. Every other
property of the runs has its theorem.

Two assumptions are worth a word. `AccountAssumption` types the messages: whole
tenths of a cent, shares in `0..Scale`, sender and group among the users; it does
not say that shares make a whole, which is for the code to check.
`ReadingAssumption` has dates later than the year 8, so that going back from them
stays in the calendar (`date.replace` raises before the year 1, which no receipt
comes near).


## 6. What is left out, and why

* *Wording, layout, logging, spans*: no property is about them.
* *What the model reads in a receipt*: any result that `ParsedExpense` accepts, or a
  failure.
* *Webhook secret, bodies that are no update*: nothing of them reaches the state.
* *The prompts*: their text. That they name the day is in the model.
* *Backoff and jitter*: time only. Retries of reads are one step with a failure.
* *The sender's time zone*: the program knows no clock but the server's, so there
  is nothing in it to compare a date with.
* *Changes of the allowlist*: it is read at the start and fixed in the models; a
  draft whose payer is taken off it waits for the sweep like any other.
* *The conversation id in a ContextVar*: asyncio gives every request a context
  of its own; a draft has its task's id.
* *A callback without its message*: Telegram may leave out a message that is old, and
  the handlers then do all they do but have no chat to say it in. The models' taps
  carry their message, so `EveryTapIsTold` and `AckedIsTold` speak of those only; no
  other property needs anything to be said.
* *A callback whose code and state belong to different visits*: `oauth_callback`
  takes them as two parameters, `OAuthConnect.Arrive` as the pair that Splitwise's
  redirect carries.
* *Configuration, logging setup, client factories, set_webhook*: no state of their
  own, or pure I/O. *Spans and tags of Langfuse*: no effect on the program.
  `get_groups`, `get_current_user` and `upsert_group` have no caller.


## 7. The plan

The order puts what moves money first.

Done: 1 `ExpenseContract`, `ExpenseLifecycle` and their proofs; 2
`NameResolution`, `SplitShares`, `DraftResolution` and the proof of who is
charged, with payers who reconnect; 3 `UserRows`, `OAuthConnect`,
`CapturePipeline` with the webhook's gate, and the proofs of their invariants; 4
`ReceiptReading` with its contract and proofs; 5 `SchemaMigrations` and its proofs;
6 the proofs of every safety property the runs check; 7 the users table and the schema
versions as abstract specifications, the composition of pipeline and reading, and
the measures behind the liveness properties.

Next: a composition of `DraftResolution` with `OAuthConnect` in one module, if the ids
of a draft and the token ever come to be compared in the code.


## 8. How to run it

```
tlc -config all_faults.cfg MCExpenseLifecycle  # or v_abandoned, v_retry
tlc -config overlap.cfg MCExpenseHistory
tlc -config slow.cfg    MCExpenseErrors
tlc -config draft.cfg   MCDraftResolution      # or v_payer_paid, v_sender_name
tlc -config connect.cfg MCOAuthConnect
tlc -config capture.cfg MCCapturePipeline
tlc -config parser.cfg  MCReceiptReading
tlc -config migrate.cfg MCSchemaMigrations
tlapm ExpenseHistoryProofs.tla                 # or any other *Proofs.tla
```

The longest runs are `overlap` (2.6 million states) and `capture` (800 thousand), over
two minutes each with two workers, `all_faults` (1.9 million, two minutes) and
`slow` (140 thousand, with liveness, under two).
