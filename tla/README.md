# Novamath: a TLA+ verification development

Novamath is a Flask application that teaches mathematics: courses and exercises,
a chatbot, Stripe subscriptions, daily quotas, backups. Its code is `src/webapp/`;
it runs under gunicorn, up to four worker processes of two threads each
(`src/gunicorn.conf.py:49-60`), over one database, SQLite or PostgreSQL. There is no
queue and no cluster protocol. The hard part of this system is that **every
request thread of every process meets the others in a few shared rows**, between
statements that the code does not run in one transaction, and may be killed there.

The project has TLA+ modules of the components where this matters, TLC runs on
small instances, and TLAPS proofs for every value of the constants. Paths below are
under `src/`; French quotations are from the source.

Contents: 1 inventory, 2 modules and code, 3 runs and bounds, 4 fairness, 5 proofs,
6 disagreements found, 7 what is not modelled, 8 plan.

## 1. Inventory

| component | state it keeps | operations | hard behaviours | what makes it correct |
|---|---|---|---|---|
| Daily quotas (`quota_service.py`) | `user_daily_usage(user, date, type).count` | `consume`, `refund`; previews that only read | increment, compare and undo are separate statements; midnight and plan changes fall between them; kills | the counter is accounted for; a grant counts every earlier one; consuming looks atomic |
| Stripe webhooks (`stripe_webhook_service.handle_event`) | `stripe_webhook_events(id, processed_at, completed_at)` | reserve, complete, release, re-reserve after a time-out | duplicates, retries, worker death, slow handlers, lost answers | one handler at a time; handled for ever; nothing lost |
| Subscription sync (handlers of `stripe_webhook_service.py`, `/checkout/success`) | `users.plan`, `stripe_subscription_id`, `stripe_subscription_status` | one handler per event type, the success page | events out of order, handlers that read, fetch and write, snapshots that are stale | the row agrees with Stripe once all is handled |
| Chatbot conversation (`chatbot/conversation_manager.py`) | `chatbot_messages`, retry claims in `system_settings`, a unit of quota | `stream_reply`, `retry_last`, `regenerate_last` | double clicks, several tabs, failures after part of the reply, kills | one reply per message; billed exactly when delivered; no message stuck |
| Model choice and fallback (`chatbot/services/llm_fallback_service.py`, `provider_manager.py`, `ai_provider_key_service.py`, `chatbot/cache.py`) | marks of unavailability, key cooldowns, `LLM_CALLS` counter, memory of replies | `generate`, `select_llm_for_user`, key rotation, storing | failures after the first word, clients that leave, concurrent turns that share marks and budget, midnight in the middle of a turn | one author per reply, kept under its author's name; no call paid twice; every turn ends |
| Rate limiting (`rate_limit_service.py`) | `rate_limit_events`, one row per identity, route and second | `check`, `cleanup` | the clock is read before the lock; two engines; cleaning while counting | no sliding window exceeded; no undeserved refusal |
| Backups (`backup_scheduler.py`, `backup_service.py`) | dumps, twin zips and safety copies by name; the claims of days in `system_settings`; the live database and directories | claim of the day, dump, zip, retention, deletion, restoration | several workers; kills between any two steps on files; deletions that fail; a list of backups that is old when it is acted on; a backup deleted while it is restored; restorations that share a temporary file; a post in the middle of a restoration | one automatic backup a day; what is overwritten is in a safety copy; the live database is never empty; a restoration is whole; the retention spares what is young and among the latest |
| Learner progress (`server.py` `api_stats`, `auth.py`, `store.js`) | one JSON file per user and directory, `localStorage` of each device, the cached xp of the user's row | record, post, hydrate; read, merge, write, cache | two devices at once; lost posts; old local states | an acknowledged answer stays; the cache agrees with the file |
| Parental consent (`consent_service.py`) | consent requests, account status, proofs | request, resend, resolve by token | supersede-then-create and resolve-then-status are separate transactions | one valid link, used once; status and proof match the resolution; no session before it |
| Accounts, sessions, guests (`auth.py`) | users, sessions, the guests' files, the browser's cookie and local state | enter as a guest, purge, sweep, register with or without the answers, log in; sessions that end | tabs at once; kills inside a transfer or a purge; guests that expire meanwhile; sessions that end or begin under a request | answers that are owed are kept, the others forgotten; a valid session is used again |
| Two-factor authentication (`two_factor_service.py`) | challenges, last counter, recovery codes | challenge, verify, recover | each is one row that one statement consumes | a code is accepted once |
| Billing calls, reconciliation | none of their own | calls to Stripe, comparisons | the calls fail | |
| Plans, roles, owner's test mode | the user's row, one setting | functions of them | the setting changes during a request | see quotas |
| Database layer (`database_service.py`, `db.py`) | connections, translation of SQL | every statement above | what a transaction sees differs by engine | see rate limiting |
| HTTP routes (`server.py`) | none of their own | forms and calls of services | | |
| Support, administration, AI providers, settings | single rows | forms | | |
| Local answers of the chatbot | none shared | text and formulas | | |
| Course content, front end, logs, mail, vendored code | none the others depend on | | | |

How they interact:

- a chat message goes through **RateLimit** (`@rate_limit`), then **Conversation**,
  which consumes `CHAT_MESSAGES` in **QuotaService** and gives it back if the reply
  fails with nothing stored;
- Conversation asks **Generation** for the reply; Generation consumes `LLM_CALLS`
  in QuotaService once per network call and keeps replies in a memory of the process;
- Stripe calls **StripeWebhook**, which runs a handler of **SubscriptionSync**, which
  writes `users.plan`, which selects the limits in QuotaService and the chain in
  Generation;
- **Progress** and **Backup** share the database and the directories of files
  (`Storage`): a backup archives them while pupils post, a restoration replaces them;
- **Guests**, **Consent** and registration meet in `register`: a guest's answers
  are taken or purged, then an adult gets a session and a child's parent a link;
- everything shared goes through `db.py`: no locks in memory are shared by processes.

Each module takes its neighbours by the outcomes they can have (a consumption succeeds
or is refused; a handler raises or not; a generation stores a reply or raises), so it
keeps the interleavings at its own interface and no others. Where a module relies on a
promise of another, that promise is a property checked there: Conversation and
Generation consume quota in one atomic step, which is what `ImplementsLedger` says;
SubscriptionSync handles an event in one worker at a time and again after a failure,
which is what `OneHolderPerEvent` and `RedeliveryRecovers` say.

Every hazard, with its line and the properties that cover it, is listed in
`PROJECT.json` under `hazards`.

## 2. Modules and code

Every definition that models code is listed with its lines in `PROJECT.json` under
`map`. An operator commented as a *mutant* is a plausible bug in the definition after
it. No specification uses it: substituting it for that definition must make TLC find
the property violated, which shows that the property depends on the code.

### QuotaLedger, QuotaService: `quota_service.py`, `user_daily_usage`

`QuotaLedger` is the abstract promise: in one step, grant a unit below the limit or
refuse; give a unit back at most once. `QuotaService` is the code: `consume` tests for
"unlimited" (`IsUnlimited`), reads the day once (`ReadDay`), increments with an UPSERT
and compares (`Increment`), and undoes on the same row (`Compensate`); `Refund`
decrements the row of the day it runs on. The owner's limit is read again by each call
(`GetLimit`), so it may vanish between test and comparison, where the comparison with
`None` raises and leaves the unit counted. `Crash` kills a request anywhere. `due` and
`drift` are history variables: the first counts units granted and not given back, the
second the units that crashes and late refunds displace. The refinement maps the
ledger's counter to the row minus the increments still to be undone.

### EventInbox, StripeWebhook: `handle_event`, `stripe_webhook_events`

`EventInbox` is the promise: new, handling, handled. `StripeWebhook` has the
reservation row in four states (no row, reserved, reserved and past the time-out,
completed), workers that run, complete, release or die, a 2xx answer that Stripe may
not receive, duplicates answered at once. The age of a reservation is one event,
`Expire`. `config.py:198-206` sets the time-out far above any handler: `MayStall = FALSE`
is that assumption, `TRUE` lifts it.

### SubscriptionSync: the handlers

Stripe's side changes subscriptions and appends the events that report each change,
with the subscription as it was then. A handler reads the user's row, fetches the
subscription if its type does, then writes: three steps. `Allowed` opens the
environment: `"reorder"` (any event first), `"overlap"` (handlers interleave),
`"revisit"` (a success page opened again later). By default new purchases are closed
(`PEDAGOGY_FREE`, answer 410): `Subscribe` is for an installation that sells, and the
other actions for existing subscriptions also otherwise.

### Conversation: `stream_reply`, `retry_last`, `regenerate_last`

Messages with their increasing ids, the retry claims, and requests that stop between
any two statements. `retry_last` reads the last message and claims it; `regenerate_last`
reads the last reply, deletes it (only the request whose DELETE counts goes on), then
pays. The `except` and `finally` of each are part of `Finish`. `alone` is a history
variable: two requests have never been open together. `Erase` is
`delete_conversation`: the messages go, the claims stay, and requests under way find
out one statement later: `PostRefused`, or a reply that can no longer be stored.

### Generation: `generate` and what surrounds it

A turn selects the first model of its chain that is neither tried nor marked down,
rotates over its usable keys in order of priority, consumes one `LLM_CALLS` per
attempt, streams, and ends in success, in a failure before or after the first word, or
because the client leaves. `Store` is the `finally` of `_generate_assistant_reply`. Turns
of one user share the marks, the cooldowns, the budget and the memory; `Expire` lets
any of these lapse at any moment, and `Midnight` gives the budget back, be it between two
attempts of a turn. Local variables of a turn are reset when it ends, as its frame is.
Two history variables: `left`, some client has left early; `denied`, whether the budget
has turned the turn away from a model, and whether midnight has passed since.

### SlidingWindow, RateLimit: `check`, `cleanup`

A request reads the clock (`Arrive`), then counts its window in a transaction
(`Count`), then commits (`Admit`), undoes its increment (`Refuse`) or rolls back
(`Fail`); `Cleanup` deletes what is older than the retention. `Excludes` says which open transactions keep another out: on SQLite all of
them, on PostgreSQL those on the same row, that is the same second. A refusal leaves
the row behind, with a count of zero if it is new. `SlidingWindow` is the promise: a limiter
that forgets nothing, and decides on a request and records it in one step; a request
keeps the date of its arrival, `MaxStall` seconds ago at most. The refinement maps the
history of the admitted requests to the limiter's own.

### Storage, Progress, Backup, Durability: files, archives, restorations

`Storage` is what the data directory holds of one pupil: the account and the claims in
the database, and a set of items per directory. `Progress` is its use by devices.
`Record` is `recordAnswer`: the local state grows and *all* of it is posted, best
effort (`Post` may lose it); `Hydrate` adopts what the server has; `Leave` is another
account on the same browser. A request is `Read`, `Write`, `Reply`, each a step of
`api_stats`: the file, the merged file, then the cached xp and the answer.

`Backup` is a thread that runs a backup (`Claim` or `Create`, `Dump`, `Zip`, then the
retention) or a restoration (`Restore`, `SafetyCopy`, `Copy`, `Replace`, `Extract`, then
`Remove` and `Promote` per directory), and `Stop`, a kill or a failure, anywhere. The
retention lists the backups once (`Retain`: what is too old or too many is `doomed`), then
deletes them one by one, each with its twin (`Purge`), then old safety copies and old zips
(`PurgeZip`); each deletion may fail, which the code ignores, and other jobs archive,
restore, delete or apply the retention in between. `Copy` fills the one temporary file
that all restorations share (`tmp`), or is killed half way; `Replace` renames whatever is
there by then over the live database, another restoration's copy or half of it included. An archive
appears whole, because it is renamed into place; a restored directory does not: its
`rmtree` and its rename are two steps. `Opened` is what `sqlite3.connect` does with a
file that is gone: it creates an empty one. Names carry a day and a number, as their
timestamps do; the retention compares times of day that the names do not show, so the
archives of the last day may be expired up to any number (`edge`).

`Durability` puts both over one storage. `calm[j]` is a history variable: since
restoration `j` began, nobody else has written to the storage or deleted the archives
it uses. `overlap` (two requests on one file), `cut` (a request ended between file
and cache) and `upset` (a backup was deleted while it was being restored, or two
restorations met at `tmp`) are others.

### Guests, Consent, Accounts: `auth.py`, `consent_service.py`

`Guests` is one browser without an account. Every request first finds whose session
it is (`Identify`); an expired guest is purged before the request goes on. `Enter`,
`Sweep`, `Create`, `Greet` are `enter_guest`; `Unlink` and `Delete` are `_purge_account`;
`Land` is the landing page, which ends a guest's visit; `Read` and `Write` are a post;
`Take` and `Give` are `_transfer_guest_data`. `Idle` is the two hours without a
request, `Visit` another visitor, who sweeps.

`Consent` is the links of one child's parents: `Resend`, `Supersede`, `Issue`, and
`Follow`, `Resolve`, `Settle`, `Prove`, each one transaction, killed (`Abort`) between
any two. The expiry of a link takes steps away and changes no state, so a link that
may always be followed covers it. `Accounts` adds `Register`, `Enrol`, `Open`, `Login`,
`EndSession` over both: a session ends, a guest's or the account's, because its owner logs
out (the profile shows the button to guests too), because of its `expires_at`
(`GUEST_SESSION_DAYS`, one day), or because the browser closes, whose cookie is not kept.
The page then forgets its local state; the guest's row and his files stay behind, until a
sweep takes the row. History variables: `owed`, the acknowledged answers that the
visitor has not given up; `mixed` and `crossed`, two requests, or two operations on
the consent, have been open together; `late`, the requests that were open when the
browser's session changed; `swept`; `cut` and `broken`, the kills.

## 3. Runs and bounds

Twelve runs: eight of correctness, and four that show a disagreement
(section 6). Deadlock is checked in the webhook runs, where a worker can always do
something; elsewhere the bounds (calendar, ids, turns) stop the system.

| run | shows | bounds, and why they are enough |
|---|---|---|
| `quota` | `LedgerBalances`, `GrantsCountEarlierOnes`, `ImplementsLedger` | 2 requests: every hazard is a race of two, and more is proved. 2 days: one midnight. Limit 1, so that the second request is the first one over it. `MaxUnits` 3 stops new requests only. The owner account, because its limit may appear and vanish, which covers the ordinary user |
| `stripe` | `OneHolderPerEvent`, `OnlyLostRunsRepeat`, `ImplementsInbox`, `RedeliveryRecovers` | 3 workers: a holder, a thief and a duplicate. 2 events, one without a handler. No other bound |
| `sync` | `Agreement`, `PlanFollowsStripe` | 2 subscriptions in succession (the second after the first has ended) and 2 plans (a change of plan); at most 4 undelivered events, enough for a subscription to begin, change and end before the first is read; 1 worker, since handlers do not overlap in this run |
| `conv` | `OneReplyPerTurn`, `BilledIffDelivered`, `RetriesExclude`, `RegenerationsExclude` | 2 requests of any kind, crashes allowed; operations start while at most 5 ids are used: a message, its reply, a retry or a regeneration, and another turn; the conversation may be deleted at any moment |
| `rate` | `WindowBound`, `RefusalsAreDeserved`, `ImplementsWindow` | 2 threads; limit 2, so that a window can hold an old and a new hit; period 3 of 7 seconds: two disjoint windows and all that overlap them; a stall of one second lets a request record itself in the past |
| `generation` | `OneVoice`, `FiledUnderAuthorIfHeard`, `NothingAskedTwice`, `OneModelWithoutFallback`, `TurnsEnd` | 2 turns that spoil each other's state; 2 models and the local engine, so that fallback happens twice; 2 keys shared by both models, so that a cooldown of one acts on the other; a budget of 2 calls a day, less than the 4 a turn may want, and 2 days, so that it runs out under a turn and comes back under it |
| `durability` | `SerialAnswersAreKept`, `OneAutomaticBackup`, `SafetyCopyHolds`, `NeverBlank`, `RestoresWhole` | 2 jobs: a backup against a restoration, or two of a kind. 2 directories: one to restore, one to leave alone. A device that has its own answer and lacks an earlier one that the file has; 1 request, two being `progress_lost_update`. 2 days, one backup kept, retention of 1 day: both rules delete, one file at a time. 1 restoration (`MaxRestores`), no job starts after 2 timestamps (`MaxArchives`), `Budget` 5 on answers, departures, days and archives together, where a departure or a day counts for two; the proofs have none of these bounds |
| `accounts` | `NothingOwedIsLost`, `FilesHaveOwners`, `SessionsAreReused`, `AccessNeedsConsent`, `OneLink`, `StatusIsDecided`, `LinksAreUsedOnce` | 2 requests of the browser, 2 operations on the consent, 2 guests (one after the other, also because the first one's session has ended, or two tabs), 1 answer; sessions end at any moment, as often as one likes; `Budget` 5 on guests, links, kills and overlaps together, so that two kills and an overlap fit in one behaviour |

Each module but Accounts also has its `TypeOK` in its run, which holds more than types where it can: ids are
distinct and below the next one, the budget is not exceeded, a request that counts has
chosen its row.

What the less obvious properties mean (several have a condition on a history variable:
section 6 says what TLC finds without it):

- `GrantsCountEarlierOnes`: the grant that is given now counts every earlier unit of
  its day that was not given back. The exception, negative `drift`, is the midnight
  refund of section 6.
- `OnlyLostRunsRepeat`: handlers are not transactional, so an event may have its effect
  twice; this says that it takes a run that was killed, or raised, after its effect.
- `Agreement` holds when no event is left and no handler runs: it is what the user
  keeps. `PlanFollowsStripe` is its temporal form: also while events keep coming.
- `SerialAnswersAreKept`: the merge makes up for states of any age and for lost posts,
  as long as requests on one file follow one another; `AnswersAreKept` without that
  condition is the violation of `progress_lost_update`.
- `SafetyCopyHolds`, `RestoresWhole`: what a restoration overwrites was archived just
  before, and what it leaves is what was archived, whatever *other* jobs and archives
  do; a post in the middle is in no archive, hence `calm`.
- `NeverBlank`: unless a backup is deleted while it is being restored, or two
  restorations meet at their temporary file (`upset`). The run has one restoration: that
  the rest holds of any number is the theorem `NeverEmpty`.
- `OneModelWithoutFallback`: when the budget runs out the turn goes on through the chain,
  but calls nothing, as there is nothing left to call with. Unless midnight comes then:
  the one exception (`denied`), after which it calls a second model although the
  administrator has refused fallback.
- `SessionsAreReused`: an entry looks for a session once and creates a guest four steps
  later; it never replaces a session that was there when it looked. It does not say that
  a visitor makes one guest: when his session has ended, the next entry makes another.
- `NothingOwedIsLost`, `FilesHaveOwners`: the two halves of a transfer: at every
  instant, so at every kill, the answers are in one of two files, and no file is left
  that no row names.
- `AccessNeedsConsent` and `LinksAreUsedOnce` hold whatever interleaves or is killed;
  `OneLink` unless two operations overlap, `StatusIsDecided` unless one is killed too.
- `RefusalsAreDeserved`: refused requests, cleanups and rolled-back ones never add up
  to a refusal.
- `ImplementsWindow` adds to both that the rows which cleanup deletes and the requests
  that were refused or rolled back meanwhile are never seen in a decision.
- `ImplementsInbox` contains that a completed event stays completed (`CompletedForever`,
  a theorem of its own).

## 4. Fairness

Three modules claim liveness, each under the fairness its environment gives.

- `StripeWebhook`: a worker that is not killed goes on (weak); a reservation ages
  (weak); an event that is not answered is delivered again and again (strong): Stripe
  retries for days, and the Dashboard can be asked for more, also after a 2xx; a handler
  and its completion do not fail for ever (strong). Deaths stay unlimited. Without
  the redelivery after a 2xx the property is false, see `stripe_early_ack`.
- `SubscriptionSync`: events are received while any is left, fetches and writes
  do not fail for ever (strong). Changes at Stripe are not fair: it may stop.
- `Generation`: a turn takes its next step (weak), because each call of a provider has a
  time-out (45 s for Gemini and Anthropic) and nothing else waits.

## 5. Proofs

Each `...Proofs` module extends its component and TLAPS; the theorems hold for any
sets of requests, workers, jobs, devices, events, plans, models and keys, any number of
answers, guests and links, and any limits, under the named assumptions of the component.
TLC evaluates those assumptions in every run.

| theorem | argument |
|---|---|
| `QuotaServiceProofs!LedgerInvariant` | `LedgerBalances` is inductive with `TypeOK`; one step per action. The work is in how `Cardinality(Pending(d))` moves: lemmas on a request that enters, leaves or does not touch the set, from the library's facts on finite sets |
| `...!GrantsAreCounted` | the grant's own test, `total <= limit`, with `total` rewritten by the invariant: pending increments only make it stricter |
| `...!LedgerRefinement` | a step per action: grants, undo, refund and crash map to Grant, a stutter, Cancel, and Keep or Lose. Needs `PlanSeen`: a request past the first test has seen a plan of the kind that sent it there, so a lost unit is one of a limited plan |
| `...!NoUnitGivenBackTwice` | `HeldUnitsAreDue` is inductive with `TypeOK`: `Cardinality(Held(d)) <= due[d]`, where a request is held from its grant until it gives its unit back, leaves or dies |
| `...!TimelyRefundsKeepTheLimit`, `TimelyRefundsKeepCountersUp` | assume `RefundsAreTimely`: every refund runs on the day of its unit. Then `drift` is never negative (`NothingDisplaced`), and `LedgerBalances` turns that into the limit of the day, and, with `HeldUnitsAreDue`, into a counter that covers what is held. `quota_refund_midnight` refutes the same `GrantsWithinLimit` without the assumption: the refund after midnight is its only cause, not the races, the crashes or the changes of plan |
| `StripeWebhookProofs!ExclusiveReservations`, `CompletionIsFinal`, `InboxRefinement` | assume `~MayStall`. `OneHolderPerEvent` carries its own strengthening: a holder's reservation stands, so nobody can reserve it, and a release deletes the holder's own row |
| `...!RepeatsAreLostRuns` | adds `EffectsRecorded`: an event whose effect was not lost half-way is completed, or its worker is about to complete it |
| `...!CompletionMeansEffect` | no assumption on handlers: `CompletedIsApplied` also speaks of a worker about to complete, whose event has had its effect, and effects are never taken away |
| `...!PatientAnswersLoseNothing` | assumes `DuplicatesAreDone`: only a duplicate of a completed event is answered 2xx. Then what is acknowledged is applied, by the theorem before, also with stalling handlers. `stripe_early_ack` refutes the same `AckedMeansHandled` without the assumption: the early answer is its only cause |
| `ConversationProofs!ExclusiveRetries`, `ExclusiveRegenerations` | `Bookkeeping`: where a request is in its program says which program it runs, and a victim is an id already given, so no new message can have it. Then the claim, or the DELETE, has one winner, and a claim stands while its holder works, because only the holder releases it |
| `...!SingleReplies` | `Turns`: while requests follow one another, a reply comes after the message it answers and before the next one, and the request that is open works on the last message, which has no reply, or the one it is about to delete |
| `...!BilledForReplies` | `Accounted`: a message that is being answered is charged, and the last message of the conversation, which the failure handler looks at to decide the refund, is its reply if one was stored, itself otherwise |
| `...!RepliesAreSourced`, `QuestionsNeverGo` | without `alone`. `Sourced`: a request works for a message of the user that is there unless the conversation is gone, and what it is about to delete is not one. A reply is stored under a newer id than the message it answers |
| `...!ClaimsEndWithTheirWork` | without `alone`, assuming `NothingIsAbandoned` (no worker is killed in a retry, no regeneration ends between its deletion and its reply). `Covered`: a claimed message is followed by a later one, or its retry is at work, or a regeneration is and will store a later one. Any message counts, whoever wrote it, which is why overlaps do no harm; the second exception is a trace of section 6, the first follows from the claim having no expiry |
| `RateLimitProofs!WindowsAreBounded` | assumes SQLite. Invariant: `TypeOK`, `ForgottenAreOld` (a hit that was deleted is older than any window a present or future request looks at: here the assumption on retention is needed) and `CountIsCurrent` (while a transaction is open, what it counted is still what the table holds). A new hit at second `s` can fill only windows that end at or after `s`; the transaction counted every hit since `s - Period + 1`, those later than `s` included, so all that such a window holds |
| `...!RefusalsDeserved` | either engine. `CountIsHonest`: all that a request counted was admitted since `Period` seconds before it, and the history only grows |
| `...!WindowRefinement` | assumes SQLite. A step per action under the invariant of `WindowsAreBounded`: every step but `Tick` and `Admit` stutters, and an admitted request counted exactly what a limiter that forgets nothing would count at its date (`AdmitsAtOnce`): nothing it needs was deleted, nothing was recorded since its count |
| `GenerationProofs!RepliesHaveOneVoice`, `RepliesFiledUnderAuthor` | `Voices`: during a call, the text is either empty or the work of the model being called; when it is stored, its text is that of the last model called, and `call_info` names that model unless somebody left; a reply that is kept has one author |
| `...!NoCallTwice` | `Calls`: all that was asked concerns tried models, and, for the current one, keys no longer in the rotation, except the one being called. `Rank` is one to one, so that "the first key" is one key |
| `...!OneModelOnly` | `Loyal`: without fallback, a turn that the budget has not turned away has asked no model while it looks for one, and only the one it is at; one that was turned away today finds no budget as long as it is today, whoever used it up. After midnight nothing is claimed of it |
| `...!TurnsOnlyAdvance`, `TurnsAreNeverStuck` | the safety half of `TurnsEnd`. A step of a turn adds a model to those tried, or takes a key from its rotation, or goes forward in an attempt, and the models in reach are finite in number (`LastResort`: the local engine, once selected, is never left for another). And the guards of a turn's next step hold as long as it is not over: some model can be selected, if only the local engine, and a rotation that is used has a first key |
| `DurabilityProofs!NeverEmpty` | `Peopled`: the live database, every archived one and the one in the temporary file has accounts as long as a restoration is about to promote it; only what `upset` records gives an empty one |
| `...!OneAutomatic` | `Unrestored`: without a restoration the claims in the live database only grow. `Claimed`: the day of an automatic job is among them. So the second worker finds it |
| `...!RetentionSparesTheLatest` | assumes that no administrator deletes a backup. What a retention deletes is past its age, or has `MaxBackups` later backups still there *at that moment*, not only when they were listed. `Doomed` says so of every name on every job's list, and must survive the deletions of the other jobs: what they delete is on a list too, so its own `MaxBackups` later ones, which stay, are later than any earlier name; or it is too old, and then every earlier name is (`Ordered`: numbers and days agree) |
| `...!AnswersKept` | `Serial`: `Sorted` (an answer is in the file it belongs to) and `InTurn` (what the one open request has read or written is the file, what is acknowledged is in it, and the cache follows) |
| `...!FilesNeverShrink`, `DevicesKeepTheirOwn` | the first from the same invariant: what the open request merges is the file as it still is. The second is inductive: only `Leave` takes anything from a device, and it signs the device out |
| `...!CopiesAreSafe`, `RestoredWhole` | `Distinct` (two jobs never write one archive), `ArchivesAreFixed` (an archive keeps its content until it is deleted) and `Undisturbed`: while calm, the database and each directory are those of the backup where the restoration has passed, and those of the safety copy where it has not |
| `AccountsProofs!LinksUsedOnce` | one step per action on the links: each changes a link only if it finds it pending |
| `...!ConsentFirst` | `Guarded`: an account of a child is active only if a parent has accepted, or while the operation that will settle it has found so; whoever is about to open a session has found it active or is sent to wait |
| `...!OneValidLink` | `Solo` (the history variables say whether requests or operations have been open together) and `Linked`: no link is pending between superseding and issuing, and no registration of the child is under way once a link exists |
| `...!OwedAnswersAreKept`, `FilesGoFirst` | `Guarded` and `Safe`: whose guest a request works on, and which of the two files holds the answers, for each place where it can be killed; a guest that is deleted has lost its file before |
| `...!DecisionStands` | `Told`: for each place in an operation, what the links, the status and the proofs may be; once a link has been answered, every other one is superseded (from `Linked`), so that nobody can answer again |
| `...!EachAnswerIsProved` | whatever overlaps. `Balanced`: the answered links of a kind are at least the proofs recorded and the proofs that an operation still owes, and what is missing is at most the number of kills. The work is in how the three cardinalities move when a link is answered, a proof is owed, recorded or lost |
| `...!StatusIsAnswered` | whatever overlaps. `Guarded` for the accounts that are active; `Worded` for those refused: an operation that is about to write a refusal has a refused link |
| `...!EntriesSpareSessions` | whatever overlaps, ends or is killed. `Aware`: from the moment an entry has found no session, or the guest it purges first, there is no other, or somebody has changed it since and the entry is `late`. `Born`: an id is given once, so that no session of a later guest passes for it |
| `SubscriptionSyncProofs!RowAgrees` | assumes `Allowed = {}`. The row agrees only when no event is left, so the invariant speaks of those that are: `Reach(good, Q, S, K)`, either the row is good or some event of the queue makes it so (`S`) and every later one keeps it so (`K`). `Follows` is a few such facts for the live subscription, or for the end of the last one, whose deletion the handler ignores unless the row shows it by then (`Owned`). They hold of the row, and of what a worker is about to write, for the queue with and without its event, since it may fail before or after the write (`Busy`) |
| `...!RowHangsTogether` | any `Allowed`: events in any order, handlers that overlap, old success pages. `Grounded`: every event, waiting or being handled, is about a subscription that has begun. A handler writes the three columns together, or frees them together, or only the status of a failed payment, which a paid plan allows; so what it writes is coherent (`CoherentWritten`), however old the row it has read. Which subscription and plan it is may be wrong (`sync_reordered`); that it is a paid plan with nothing behind it may not |
| `TypeCorrect` in each | `TypeOK` is inductive, for `Durability` with the timestamps of the archives, for `Accounts` with the guest a request names |

Only model-checked, and why:

- the temporal properties (`RedeliveryRecovers`, `PlanFollowsStripe`, `TurnsEnd`):
  liveness under fairness needs ENABLED, out of the prover's reach. Of `TurnsEnd`,
  what is not temporal is proved: turns advance and are never stuck.

Every other property of the passing runs is a theorem, under the assumptions the table
names. Some theorems state more than a run checks (for a turn, a retention, a device, a
row in any order of events): they hold of every instance of the model, those of the
runs included.

No module that is proved about has a RECURSIVE operator.

## 6. Disagreements between the code and what it says

Four runs expect a violation. Each checks a sentence of the source against the model
of its code, and its trace can be followed line by line in it.

1. `quota_refund_midnight`: `refund()` decrements **today's** row. A reply consumed
   before midnight and refunded after leaves day 1 charged and day 2 one unit short; day 2
   then grants more than its limit.
2. `stripe_early_ack`: a duplicate of an event still **in progress** gets a 200. If the
   worker in progress then dies, Stripe has its answer and nobody handles the event.
3. `sync_reordered`: `customer.subscription.created` handled after `...deleted` of the
   same subscription brings the paid plan back, and no later event takes it away: Stripe
   has ended the subscription, the row is paid and active. An `updated` does the same, the
   handler being the same.
4. `progress_lost_update`: two posts of one account overlap; the second write
   replaces the first with a merge of what it had read before it, and both were answered
   `ok`. The docstring of the merge says that this cannot happen.

TLC shows others by a change of constants or conditions; they are not runs because the
code says nothing against them, states the assumption that excludes them, or repeats the
lesson of a run above.

Subscriptions and webhooks:

- `MayStall = TRUE` (a handler slower than the time-out) breaks `OneHolderPerEvent`,
  `CompletedForever` and `ImplementsInbox`: the late handler's release deletes a row that is not its own;
- `Allowed = {"overlap"}` with two workers, and `{"revisit"}`, break `Agreement`: a handler
  writes what it read before another one wrote; an old success page writes an ended
  subscription over the live one.

Conversation, generation, rate limits:

- without `alone`, `OneReplyPerTurn` and `BilledIffDelivered` fail: a message can be
  retried in a second tab while its first reply is still being produced, and
  "the last message is an assistant's" may speak of another request's reply;
- the claim of a successful retry is kept, since "le dernier message n'est plus "user" :
  plus jamais réexaminé par un futur retry_last" (`conversation_manager.py:922-924`). A
  later regeneration that deletes the reply and fails makes it so again: the message can
  then be neither retried nor regenerated;
- a reply that was delivered is refunded when its conversation is deleted meanwhile;
- without `left`, `FiledUnderAuthorIfHeard` fails: a client that leaves while a fallback
  model speaks has the partial reply kept under the name of the model that failed;
- without `denied`, `OneModelWithoutFallback` fails: a turn that runs out of budget goes on
  through the chain although fallback is off (`llm_fallback_service.py:193`), and after
  midnight there is a budget to call the next model with;
- with `Engine = "postgresql"`, `WindowBound` fails: the counting transaction is exclusive
  on SQLite only, and two requests of different seconds count without seeing each other;
- without `RetentionAssumption`, `WindowBound` fails: a route with a window longer than
  the retention would have its hits deleted while they count.

Backups (`Durability`):

- a backup that is deleted between its choice and the copy of its file leaves the live
  database empty: `sqlite3.connect` creates what it does not find (`NeverBlank` without
  `upset`); with `MaxRestores = 2`, so does a restoration that promotes what another one is
  still copying to the file they share (`backup_service.py:392`);
- a backup that an administrator deletes after a retention has listed it makes that
  retention delete one backup too many;
- a kill between the `rmtree` and the rename of a restored directory leaves neither the
  old nor the new one (`backup_service.py:200-217`, which promises "soit l'ancien
  répertoire reste intact, soit le nouveau est en place en entier"): `RestoresWhole` speaks of restorations that end.

Accounts (`Guests`, `Consent`):

- two resends that overlap leave two valid links (`OneLink` without `crossed`); a resend
  during a resolution leaves a valid link to an account already decided;
- a registration of a minor cut before its first link leaves an account that waits for
  ever: no request is pending, so none can be sent again;
- a registration cut after the account is written leaves the guest's answers where they
  were, and a second attempt finds the address taken;
- the sweep of an expired guest leaves his files (`FilesHaveOwners` without `swept`);
- an answer posted between `Take` and the purge of the guest is lost (needs `mixed`); two
  tabs that enter together make two guests, and so does a guest who logs out, lets a day
  pass or closes his browser, and enters again: `enter_guest` promises only that a session
  that is there is used again, which is `SessionsAreReused`.

Seen while reading, with no property here: `retry_after` is computed from the oldest
row, which may count zero; the lasting failure of one key marks its whole model down
(`llm_fallback_service.py:276`); with every key of the table cooling, the key of the
environment is used; a truncated reply is kept and served again as if entire.

## 7. What is not modelled

Components marked `not_modelled` in `PROJECT.json` give their reason: single rows that
one statement consumes (second factor, support tickets, settings), functions of a row
(plans and roles), calls to Stripe and comparisons with it, text, data, output and browser
code. `src/odysseus/` is another program that no module of `src/webapp/` imports, kept
beside it, and the largest part of the repository; with the old snapshots and the
generated indexes it is the component "Vendored and archived code".

Within the modelled ones:

- quotas: the previews, which only read; several units at a time, which no caller asks;
- webhooks: signatures, and payloads that do not parse, refused before any state;
- subscriptions: handlers that only log; a customer no row knows; a second subscription
  bought while one is live;
- conversation: titles, action cards, learning context;
- generation: `CHATBOT_PROVIDER` (one forced provider), Gemini's own retry before its
  first word (inside "calling"), the credentials of providers (fixed in `Chain`), prompts,
  usage and cost accounting;
- rate limits: headers, identities (they never share rows);
- backups: PostgreSQL (`pg_dump`, `psql`), which the source says is not in use; the
  journal of the administrator's actions; uploads of an archive;
- progress: the settings file; series and badges, merged in the same way; what a plan
  shows of them; the class a notion belongs to;
- consent: the threshold of age, the acceptance of the policies, the text of the mails;
- accounts: log-in by OAuth or with a second factor, password and profile, deletion of an
  account, the guest's settings and course progress, the migration of a file from before
  there were accounts;
- of time, only what the code compares: a calendar of days, a clock of seconds, the expiry
  of a reservation, of a mark or of a guest as an event.

## 8. Plan

The order is that of what is shared by most processes and hardest to repair. Done:
quotas, webhooks, subscriptions, conversation, rate limits, generation, progress, backups
and restorations with their composition, guests, consent and accounts with theirs.

Left, in this order:

1. the deletion of an account against its sessions, its files and its subscription;
2. a chat turn over `QuotaLedger`, so that the message's unit and its network calls are
   seen together;
3. the second factor in `Accounts!Login`: two steps, with a challenge that may expire.

To check everything, for each run: `tlc -config <cfg> <module>`; for each proof module:
`tlapm <module>.tla`.
