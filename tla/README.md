# NovaSMS in TLA+

NovaSMS is a platform for SMS, e-mail and WhatsApp marketing: a NestJS backend
(`src/apps/backend`) over PostgreSQL (Prisma) and Redis (BullMQ), and a React
frontend. This directory holds TLA+ modules of the parts of the backend where
several processes work on the same rows, the TLC runs that check them on small
instances, and TLAPS proofs. Paths below are relative to
`src/apps/backend/src/`.

There are three models, each with its own modules. Read them in this order:

| model | modules |
| --- | --- |
| campaigns | `CampaignStore`, `CampaignDispatch`, `CampaignSchedule`, `CampaignApi`, `CampaignSystem`, `CampaignPromise`, `CampaignProperties`, `CampaignProofs`, `CampaignSendProofs`, `CampaignOutcomeProofs` |
| mobile money | `MobileMoney`, `PaymentLedger`, `MobileMoneyProofs` |
| engagement: what goes on around campaigns | `EngagementStore`, `Automations`, `ContactImport`, `DeliveryEvents`, `ContactBook`, `PublicApi`, `CardPayments`, `Engagement`, `ExecutionPromise`, `EngagementProperties`, `EngagementProofs`, `BooksProofs`, `AutomationProofs`, `EngagementTypeProofs` |

Each `MC...` module gives values for TLC; each `.cfg` is one run.

## 1. Inventory

### Components

| component | state | operations | talks to |
| --- | --- | --- | --- |
| Campaign dispatch workers (`queues/campaign.dispatch.queue.ts`) | jobs of `campaign-dispatch`; the chunk in memory | `handleDispatch`, `handleEvaluateABWinner`, `handleWinnerDispatch`, `deductSendCredit` | Send, Campaign, Account rows; providers; its own queue |
| Campaign schedule trigger (`queues/campaign.schedule.queue.ts`) | the job `sched-<campaign>` | `handleTrigger` | Campaign row, dispatch queue |
| Campaign schedule cron (`queues/campaign.schedule.worker.ts`) | none; one per backend process, each minute | `handleScheduledCampaigns` | Campaign row, schedule queue |
| Campaign operations (`campaigns/campaigns.service.ts`) | none between awaits | create, update, saveDraft, sendCampaign, cancelCampaign, cancelScheduled, deleteCampaign, evaluateABWinner, reports, duplication | all of the above |
| Mobile money (`mobile-money/`) | MobileMoneyTransaction rows | initiateTransaction, createPaymentSession, confirmTransaction, pollTransactionStatus, webhook, reconciliation cron | operator's API, Account.creditBalance |
| Automations (`automations/`) | Automation and WorkflowExecution rows, jobs of `automation-execute` | listeners, four crons, the worker with its node handlers (send, tag, condition, wait, end) and retries; toggle, delete, update | events of contacts and deliveries, providers, credit |
| Contact import (`contacts/import.service.ts`, `queues/import.queue.ts`) | ImportReport rows, jobs, the keys of a batch in memory | `processFullImport`, `processBatch`, `generateReport` | Contact rows, events to automations |
| Contacts and consent (`contacts/contacts.service.ts`) | Contact rows | create, update, addTags, optOut, anonymisation | recalculation queue, events to automations |
| Segments (`segments/`, `queues/segment.recalculation.*`) | Segment rows with a cached count | CRUD, previews, recalculation | contacts; campaigns (who is written to) |
| Delivery webhooks (`webhooks/webhook.service.ts`) | status of Send rows, Campaign counters, consent | four kinds of provider events, card payments | Send, Campaign, Contact, Analytic, Account rows; events to automations |
| Tracking (`track/track.service.ts`) | openedAt, clickedAt of Send rows | opening, click, unsubscribe | the same rows as the webhooks |
| API keys and public API (`api-keys/`, `public-api/`) | ApiKey rows | createKey, revokeKey, the guard, sendSms | provider, credit |
| Card payments (`transactions/transactions.service.ts`, `providers/payment/stripe.provider.ts`) | Transaction rows | `processVisa`, receipts | payment provider, credit, invoice |
| Authentication (`auth/`) | password, one-time tokens, 2FA, blacklist of tokens in Redis | register, login, refresh, logout, reset, 2FA, invitations | every request |
| Accounts and members (`account/`) | Account, User, Invitation rows | settings, team, invitations, usage reports | authentication |
| Circuit breaker (`common/circuit-breaker.util.ts`) | failure counter, state | `execute` | calls of mobile money |
| Providers (`providers/`, `mail/`) | none | HTTP calls | outside services |
| Templates, analytics, audit logs, uploads, frontend | their rows | CRUD, reports, user interface | - |

`PROJECT.json` lists them with what is and is not modelled, and lists the
hazards, each at its line, with the property that covers it or the reason why
none does.

### How they interact

A client drafts a campaign and sends it, at once or at a date. `sendCampaign`
resolves the segment, writes one PENDING `Send` row per contact, and adds jobs:
to `campaign-dispatch` at once, or `sched-<campaign>` to `campaign-schedule`.
When that job is due, the trigger checks the campaign, the hour and the credit
and adds the dispatch jobs; every minute a cron in each process re-adds the
trigger of campaigns still SCHEDULED past their date. Dispatch workers read
chunks of PENDING rows, call the provider for each row concurrently, write the
outcome, take the credit, and chain the next chunk. An A/B campaign sends two
samples first, then a delayed job picks a winner and sends it to the rest.

What left comes back as events: webhooks of the mail and SMS providers and
tracking links write the status of Send rows, counters and consent. Some of
them emit events (`@nestjs/event-emitter`), as do imports and requests that
create or change contacts. Listeners create executions of automations for them;
crons create others for dates, birthdays and silence. A worker takes an
execution through a workflow, and sends, pays, tags, branches and waits. After
each write of a request on contacts the cached counts of the account's segments
are recalculated by a queue. The public API sends SMS of its own.

All of it spends one credit, `Account.creditBalance`. An account is recharged by
card or mobile money. For mobile money four handlers may find the same payment
paid: the client confirming, the client polling, the operator's webhook, and a
cron in each process. Hardly any of this is in a transaction; the processes
meet only in the tables, in the queues and in events.

### What is hard here

- Each `await` is a point where other handlers run; statuses are read before an
  await and written after it without a condition.
- Workers die after a provider took a message and before the row says so;
  BullMQ runs a stalled job again, once, and a job that throws up to three times.
- Jobs have ids, and BullMQ silently ignores an add of an id it still knows:
  the same mechanism protects from duplicates and loses work.
- Chunks, cursors and counters are combined by jobs that overlap.
- A cron does not wait for its last run, nor for those of other processes.
- Webhooks are lost, duplicated, late and concurrent, and race links, polling
  and crons.
- An automation is switched off or deleted while its executions are under way.
- Amounts are `Decimal` objects, which `<` compares as texts.

### What makes each component correct

- *Dispatch*: a contact gets a campaign once; it is paid for once and only if
  SENT; counters agree with rows; SENT means nothing is left; what starts ends.
- *Schedule*: a due campaign does not stay SCHEDULED whatever became of its job; it is
  FAILED only for lack of credit; quiet hours hold.
- *Operations*: a campaign that is being sent cannot be removed or turned into
  something else.
- *Mobile money*: a payment is credited once, only if paid, and it is settled
  in the end even if the webhook is lost.
- *Automations*: an execution ends; its completion means that nothing was left
  out; a failure repeats one message at most; a deleted automation stops; each
  run of a cron starts each contact once.
- *Import*: a contact is new once, whatever files and attempts name it; reports
  account for each row.
- *Delivery events*: each send is counted once however often its events come,
  none is lost without a failure; a row that is UNSUBSCRIBED is a contact that
  is opted out.
- *Contact book*: a segment's cached count catches up with its contacts.
- *Public API, card payments*: debits and payments that overlap lose nothing;
  how far the credit may go below zero and how many keys there may be is
  bounded; nothing is booked that was not paid.

## 2. Plan and where it stands

| step | modules | theorems | |
| --- | --- | --- | --- |
| 1 sending and scheduling campaigns | `Campaign...` | type correctness, in its inductive form; who is written to, how often and at whose expense; the refinement; what FAILED means | done |
| 2 mobile money | `MobileMoney`, `PaymentLedger` | types, inductive invariant, three safety properties, refinement | done |
| 3 automations, imports, delivery events | `EngagementStore`, `Automations`, `ExecutionPromise`, `ContactImport`, `DeliveryEvents` | deletion stops executions; the refinement of what executions promise; what failures repeat, and what a Completed execution left out; consent; counting, of Resend and of any source; imports, welcomes, dates | done |
| 4 contacts and segments, API, cards | `ContactBook`, `PublicApi`, `CardPayments` | keys, overdraft, booked payments, paid messages, the balance, the segment's count; types, of all parts together | done |
| 5 | a second campaign of the account in `CampaignStore` | - | open: what `CleanDelayed` takes from other campaigns |
| 6 | teams and sessions | - | open: invitations, members, one-time tokens |

## 3. The campaign modules

### State and code

One campaign is modelled, with the Send rows, opt-out flags and credit around
it. `CampaignStore` declares everything: database columns carry their Prisma
names (`status`, `scheduledAt`, `abWinner`, `sentCount`, `failedCount`,
`balance` for `creditBalance`, `send[c]`, `variant[c]`, `optOut[c]`), the two
queues are `queue`/`dead`/`stalledOnce` and `sched`, and each process is a
program counter with what its handler remembers between two awaits:

| process | variables | module |
| --- | --- | --- |
| dispatch worker `w` | `wpc`, `wjob`; per contact of its chunk `wtask[w][c]`, `wseen[w][c]`; `wpick` | `CampaignDispatch` |
| schedule worker | `tpc`, `tadd` (jobs left to add) | `CampaignSchedule` |
| cron `i` | `cpc` | `CampaignSchedule` |
| request `r` | `rpc`, `req` (what it read and was asked) | `CampaignApi` |

An action is the code between two statements sent to the database, to Redis or
to a provider. `handed` and `charged` are history: messages a provider took and
payments made, per contact. `requests`, `faults`, `crashes` only count against
the bounds.

BullMQ is modelled from the way the code uses it: an add with a known job id is
ignored (`Known`, `EnqueueSched`), a failed job is kept with its id, a job whose
worker died is put back once and failed the second time, a locked job cannot be
removed. A statement sent to the database that throws did not happen: one that is
committed and whose answer is lost is left out, in all three models. (For
dispatching this is a payment that the catch clause at
`campaign.dispatch.queue.ts:415` takes for one that failed: the account has paid
and the row is BOUNCED, which `PaidOnceAndOnlyForSent` would deny.) Lost answers
of providers are modelled. `Selectable` is Prisma's `cursor` with `skip`: a condition on the id
added to `where`, then an offset over what is left.

### Properties

Stated and commented in `CampaignProperties`. `KeepsPromise` says that the whole
subsystem implements `CampaignPromise`, in which contacts are taken on together,
get one final outcome each, and the campaign finishes when none is waiting;
`Promise` is the refinement mapping.

### Fairness

`FairSpec` assumes that a worker that is idle takes a due job and that a worker,
the trigger, a cron or a request that is alive takes its next step: this is
Node's event loop and BullMQ's polling. Time passes. Nothing is assumed of
clients, contacts, providers, faults or crashes: they may never happen. Weak
fairness is enough, since each of these steps stays possible until taken.

`Completes` has two exceptions, both real: an A/B test evaluated before anything
of its sample was sent gets no winner and nobody evaluates it again (`GaveUp`,
the answer "not-enough-data"), and a worker that dies after storing the winner
and before adding its job leaves the rest of the contacts PENDING, because the
job that is run again finds the winner set and stops.

## 4. The mobile money modules

`MobileMoney` has per payment the row (`row`, `ext`, `aged`), the operator's
payin, and how often it was credited: `settled` counts the credits that follow
the conditional `updateMany` (polling, webhook, cron), `confirmed` those of
`confirmTransaction`. Handlers are requests, webhook deliveries and crons; `ref`
is the external id a handler read. The answer of the operator to a confirmation
is free: NovaSend's implementation answers success by itself and the simulation
provider checks a code the payer types. Errors of the status call come out as
"failed", as the provider does it; since it turns every failure into an answer
the circuit breaker around it never opens.

The webhook is taken to say the truth: `Notify` delivers "processed" only for a
payin that is. The controller compares a secret if one is configured
(`mobile-money.webhook.controller.ts:29-38`), and everything said of "only if
paid" is said of an installation where what arrives comes from the operator.

`PaymentLedger` is the promise: a payment that was paid is claimed by one handler
at a time, and never again once it was credited; who has the claim credits once,
or loses it. `KeepsLedger` maps it to the handlers between the update of the row
and the credit (`Claimants`) and to the number of credits, so that a second
credit, or a claim beside another or after a credit, is a step the ledger does
not have. It is not stated of `confirmTransaction`, which breaks it
(`mobile_money_confirm`).

`Fairness`: a live handler goes on, a row gets older, and each cron gets to each
pending row it may read. Strong fairness of `Reconcile`, because the cron may be
busy with another row when it could read this one, and comes back every 30
minutes (`reconciliation.service.ts:20`).

## 5. The engagement modules

### State and code

`EngagementStore` declares what the parts share: which contacts have a row
(`present`), their `tags` and consent (`optOut`), the credit (`balance`), the
events that no listener has taken yet, the date, and what is left of the bounds.
A contact stands for what a file or a form says of somebody; its e-mail address
and number are its keys (`@@unique` in the schema), and two contacts may share
one. Each part then has the variables of its processes:

| process | variables | module |
| --- | --- | --- |
| listener, or request, that starts execution `e`; then the worker on it | `mem[e]`; its row `exec[e]`, its job `job[e]` | `Automations` |
| run `k` of a cron, of backend `cron[k].by` | `cron[k]`; `ran[b]`, the day `b` last began one | `Automations` |
| toggle or delete by client `r` | `req[r]` | `Automations` |
| import of file `f` | `imp[f]`: job, position, keys known of the batch, tally; `reports[f]` | `ContactImport` |
| webhook or link being served | `lane[d]`; the rows `send`, `opened`, `clicked`, `counts`, `analytic` | `DeliveryEvents` |
| request on a contact by caller `a` | `form[a]` | `ContactBook` |
| worker of `segment-recalculation` in backend `b` | `counting[b]`; the queue `recalc`, the cached count `segment` | `ContactBook` |
| request on keys, or call of the API | `call[a]`; `apiKeys` | `PublicApi` |
| payment by card | `visa[a]`; `purchases`, `cards` | `CardPayments`, `DeliveryEvents` |

As in the campaign modules an action is the code between two statements. Where
the code writes in one transaction (the end of an execution without a workflow,
SMS webhooks, tracking links, the card webhook) it is one action. A statement may
throw (`Fault`) and a process may die (`Crash`) at each of them; what follows is
what the code's catch clauses do: import rows count as errors, an execution is
thrown back to BullMQ, retried or marked Failed, a cron's run ends. A workflow
is a sequence of nodes and edges, as the canvas draws them; `Next1`, `NextTrue`,
`NextFalse` and `StartNode` are `normalizeWorkflow`. `handed`, `charged`, `late`,
`laps`, `apiTried`, `apiPaid`, `cards` and `purchases` are history.

Nest begins a run of a cron whatever became of the last one, so `CronFires` asks
for nothing but that the automation is due; `Runs` bounds how many are under way
at a time, in all processes, and `laps` counts those that began while another of
their process was. A process that dies takes all its runs with it.

The modules extend one another in the order of the table, only so that each
can name the variables it leaves alone; none uses the actions of another.
What they have in common is in the rows and the events.

### Worlds

A `world` is what one behaviour is about: the workflow and trigger of the
account's automation, who is there, the files being imported, the messages that
may arrive, the operations clients may ask for, and how many faults, crashes,
requests and deliveries there may be. It is chosen in `Init` and never changes.
One run thus covers forty-seven worlds, each small, and each of which turns on one
interaction; the theorems are about any set of worlds that satisfies
`StoreAssumption`, `ContactsAssumption` and `WorkflowAssumption`.

### The promise of an execution

`ExecutionPromise` says what an automation promises of its executions, without
jobs, workers, nodes and retries: messages go out while an execution is running,
what ended stays ended and sends nothing more, and deleting the automation takes
all of them, but for the one message that each may have in hand.
`KeepsExecutionPromise` says that the whole system implements it; `Executing` is
the refinement mapping: an outcome is the status of the row, the messages are
the sum of `handed` over the nodes. What makes it more than a reading of the
worker's code is that each node writes Running again (`Stored`), that BullMQ runs
jobs a second time, and that rows disappear below a worker.

### Fairness

`FairSpec` assumes that whatever works on an execution takes its next step: the
listener, BullMQ handing out the job, the worker (`ExecutionStep`; one weak
fairness condition per execution, because the steps follow one another), and
that the crons go on. Nothing is assumed of imports, webhooks, clients, payers,
failures: `ExecutionsEnd`, the liveness property, does not depend on them. It is
stated of workflows without wait nodes and with one attempt per action, because
of what `automation_wait` shows of the others.

## 6. What is checked

Passing runs:

| run | what goes on | what it shows |
| --- | --- | --- |
| `sends_once` | 3 contacts, chunks of 2, 2 workers, plain or A/B, a contact opts out, other campaigns may use up the credit; no failures | a contact is written to once, paid once, SENT is paid for, counters match rows, SENT means drained, the rest get the winner |
| `completes` | 3 contacts in one chunk, plain or A/B, one worker that may die once | the subsystem implements `CampaignPromise`, and a campaign being sent ends SENT |
| `failures` | 2 contacts, 2 workers, one call that throws and one death, at any point | a contact is written to again at most once per death; as long as no job is rerun beside what it left behind (with two workers: in the behaviours with a call that throws and no death), never paid for twice or without being SENT; and the invariant of the proofs, `SendInv` |
| `schedule` | every operation of the API against the trigger and the cron, a draft or a scheduled campaign, quiet hours, a fault or a death | FAILED only for lack of credit; a due campaign leaves SCHEDULED whatever became of its job. That it is then sent is not said: the cron writes SENDING also when the queue ignored its job |
| `mobile_money` | 1 payment, 2 requests, a webhook, 2 crons, an error of the operator and a death | credited once and only if paid, completed is credited, decided payments are settled, the ledger of claims and credits is implemented, and the invariant of the proofs |
| `engagement` | the forty-seven worlds of `MCEngagement` | types, and the properties below |

`engagement`, by property (all in `EngagementProperties`; every one is checked
in every world):

| property | worlds that turn on it |
| --- | --- |
| `MessagesBounded`, `CompletedMeansDelivered`, `ExecutionsEnd` | a contact is taken through a message, two messages, a wait, a wait at the end, a retry, a tag and a test of it, a test of an opening, with an error and a death at any point, while the automation is switched on and off |
| `DeletedStops`, `KeepsExecutionPromise` | the same, the automation being deleted at any point |
| `EngagementTypeOK` | every world; among them a tag node without a tag and an edge to a node that is not there, which stop an execution in the middle |
| `FiresOnce` | an automation with a date that is changed, one for every day, for birthdays, for silence; runs that overlap, of one process; an error or a death in the middle of a run; the day ends; contacts opt out between two runs |
| `WelcomedOnce`, `ImportAccounted` | two files at a time that name the same contact under two addresses, an attempt that fails and is repeated, a death |
| `CountedOnce` | Resend repeats openings and clicks, one at a time or at once, with an error or a death between two statements |
| `EventsCounted` | the same, and the events of other providers and links |
| `UnsubscribedIsOptedOut` | withdrawals by Resend, SMS, link and request, cut short at any point |
| `BooksBalance` | automations, the API, card payments and the card webhook use one credit |
| `PurchasesBooked` | payments by card that are taken, refused, lost, or left to the payer's bank |
| `SegmentCountFresh` | contacts are created, tagged, opted out and in while their segment is counted |
| `KeysBounded` | two requests make keys and revoke them at the same time |
| `OverdraftBounded`, `ApiMessagesPaid` | two calls of the API overlap, with a send that throws, and a death between sending and paying |

Runs that show the code doing something else than it says:

| run | property | what happens |
| --- | --- | --- |
| `chunks` | `NotLeftSending` | the next chunk is read with `cursor` and `skip: 1`, but the cursor's row is no longer PENDING, so the row skipped is one nobody handled; it stays PENDING and the campaign SENDING |
| `delete` | `SentStays` | `deleteCampaign` reads the status, a send starts, the campaign is deleted |
| `quiet_hours` | `QuietHoursRespected` | a trigger put off in quiet hours goes to the dispatch queue, where its job is handled as a dispatch and sends without looking at the hour |
| `cron_credit` | `FailedOnlyWhenBroke` | the cron compares two `Decimal` objects with `<`: 10 is "less" than 2 |
| `mobile_money_confirm` | `CreditedOnce` | a confirmation and a webhook both credit one payment |
| `automation_wait` | `ContinuationIsScheduled` | a wait node, or an action that is to be tried again, adds its continuation under the id of the job being executed; BullMQ ignores the add, the job is removed when it returns, and the execution stays Running with nothing to go on |

### Bounds

Why they are enough: the interesting cases are about two of something. Named
bounds: `MaxTime`, `MaxRequests`, `MaxFaults`, `MaxCrashes`, `MaxFailures`
(campaigns), `MaxErrors`, `MaxDeaths` (mobile money), `MaxDay`, `MaxTo`,
`MaxKeys`, `Executions`, `Runs` and the four counts of a world (engagement).
`CHECK_DEADLOCK FALSE` everywhere: these systems rest when there is nothing to do.

*Campaigns.* Three contacts give an A/B sample of two and a remainder, and two
chunks of a job; two workers give every overlap of two jobs of one campaign; one
failure of a kind is enough to interrupt any step, and a job that is stalled
twice is dead. In `schedule` the only contact has no usable address: what
happens to sends is the other runs' matter, and the trigger and the cron do not
look at them. Its balances and cost have one digit each, so that the comparison
of texts is the comparison of numbers; `cron_credit` shows what happens
otherwise.

*Mobile money.* A payment does not interact with another, so one is enough, and
the proofs cover any number.

*Engagement.* Three contacts, two of which share a number: enough for a row that
is a duplicate by one key and new by the other. Two files at once, as the queue
has it, in batches of two rows, so that a file has a row outside its first
batch. Three attempts, as in the code; one worker, since executions share only
tags and credit and the order of their statements is free with respect to all
other parts. Two webhooks or links, two callers: every overlap of two. Keys are
limited to two and calls to two numbers instead of 10 and 500; both limits only
enter as comparisons, and the theorems are for all of them. One or two failures
in a world interrupt any step, and a retry after it. There are three
executions, so that a contact may be reached by an event and again by a repeated one;
a fourth event of the same world stays in `events`. Two runs of crons may be under
way, and three executions are enough for both to reach a contact. One backend process, because
`SegmentCountFresh` is only true of one; `FiresOnce` is stated for any number.

## 7. What is proved

### Campaigns

From all the assumptions `CampaignStore` names, for any contacts, workers,
clients, crons, sizes and bounds, and then under what the third column says:

| theorem | says | provided that |
| --- | --- | --- |
| `CampaignTypeCorrect` | `[]TypeOK` | - |
| `FailedMeansBroke` | a campaign that is FAILED was short of credit, or a call threw | `TextsCompare` |
| `SendInvHolds` | `[]SendInv`, the invariant of the next ones | `OneSend` |
| `SentStaysDrained` | SENT means that no row is PENDING | `OneSend` |
| `RemainderKeepsWinner` | who was not in the sample gets the winner | `OneSend` |
| `HandedAgainOnlyByDeaths` | a contact is written to at most once more than workers died | `OneSend` |
| `NobodyHandedTwice` | a contact is written to once | `OneSend`, no deaths |
| `SendsPaidOnce` | a send is paid once and only if SENT, unless a job was rerun beside what it left behind | `OneSend` |
| `SendingKeepsPromise` | the workers implement `CampaignPromise` | `OneSend`, `NeverRerun`, nothing throws |
| `SendsArePaid` | SENT is paid for while there is credit | `OneSend`, no failures |
| `CountersAreRows` | the counters are the numbers of rows | `OneSend`, no failures |

*Types* (`CampaignProofs`). TypeOK says among other things that the credit never
goes below zero however many callbacks charge at once, and that every queued job
is one the workers understand. It is not inductive: `TInv` adds that a worker
that goes on has a job, and that who is adding jobs has one left to add. The
cursor of the next chunk is a contact because a finite set of numbers has a
greatest element (`GreatestExists`, proved from the well-foundedness of `<`: the
smallest counterexample has none).

*Claims* (`CampaignSendProofs`). `OneSend` is the campaign that one request sends
at once: clients only send, at most once, and without a date. Other campaigns
may use up the credit, contacts opt out, calls throw and workers die. It is
needed: a second request that evaluates the A/B test picks another winner, and a
campaign that is scheduled is dispatched by more than one job. Each job asks for
rows (`Asks`): PENDING ones of a variant, above a cursor. A job on the queue, a
worker that runs one and a request that has jobs left to add *claim* the rows
that they may still take up (`Claimants`). `ClaimsBounded` says that there is at
most one claim on a row, and one more for each death, and that messages handed
over and claims that may lead to one add up to as much. Every step hands a claim
on (a job that is taken, a chunk that is read and what comes after it, the next
chunk's job, the winner's job), drops it, or uses it up for a message; only a
worker that dies adds one, as BullMQ runs its job again beside what it has added
already. A call that throws adds none: the row is written BOUNCED, or keeps the
claim it had. That two jobs never claim the same row needs the rest of `SendInv`:
jobs are those of the campaign (`JobsFit`), there is one evaluation, queued,
running or to come, so that the winner is chosen once (`OneEvaluation`), rows
that are sent know their variant (`VariantsSeen`), and who is about to write SENT
found nothing PENDING, which stays so because rows are written once, before the
jobs (`Drained`). TLC checks `SendInv` in `failures`.

*Outcomes* (`CampaignOutcomeProofs`). One claim on a row means one callback at a
time (`OneHolder`), and then a row that is SENT and being paid for is not written
by another. This is lost when a worker dies and another one runs its job again
beside the jobs it left: `NoRerun` (nobody died, or there is one worker) is the
premise of `PaidOnceAndOnlyForSent`, and section 8 says what happens without.
The refinement needs that nothing throws, since a payment that throws turns a
row that was SENT into BOUNCED, which is no final outcome. Counters change
only when a worker leaves its chunk (`CountersKept`), by as many as the set of
settled rows then grows by; chunks of two workers are disjoint.

*The schedule* (`CampaignProofs`). Credit is only taken and errors are
only counted up, so who found the credit too low is right for good;
`AboutToFail` says it of whoever is about to write FAILED. `TextsCompare` is what
the cron takes for granted: amounts compare as texts the way they do as numbers.
It holds when no balance has more digits than the cost; `cron_credit` shows the
rest.

### Mobile money

`MobileMoneyProofs`, for any sets of payments and handlers and any number of
errors and deaths, from the named assumptions `HandlersAreDistinct` (a handler
is a request, a webhook or a cron), `NoPaymentIsNone` and `BoundsAreNaturals`:

| theorem | says |
| --- | --- |
| `TypeCorrect` | `Spec => []TypeOK` |
| `InvariantHolds` | `Spec => []IInv` |
| `SettledAtMostOnce` | polling, webhooks and crons credit a payment at most once between them |
| `OnlyPaidIsSettled` | they credit only what was paid |
| `CompletedGetsCredited` | a completed payment was credited or is about to be, unless a handler died |
| `ImplementsLedger` | they implement `PaymentLedger`: one claim at a time, none after a credit, each credit one more |

The argument. A payment is credited by whoever takes its row out of `pending`
with the conditional update, so a second credit needs the row to become
`pending` again. One step writes `pending` over anything: the request that
starts the payment, when the operator's answer arrives (`RecordStarted`). It is
never late, because only that step stores the operator's id, and without the id
nobody is told that the payment is paid. So `SettledOnce` is not inductive;
`IInv` adds

- `StartIsAlone`: while a payment is being started by a handler, no other
  handler holds the operator's id of it or is starting it, the row does not have
  the id, and the payment was not credited nor is about to be;
- `RowsMakeSense`: a row that is `none` or `pending` was not credited, nor is it
  about to be; a payment without a row is unknown to the operator;
- `CreditsMakeSense`: credits are 0 or 1, only of paid payments, and one handler
  at most is about to credit, when none has;
- `HandlersMakeSense`: what a handler's place says about its payment (who is
  about to settle holds the operator's id of a payment that was paid).

Each conjunct has a lemma with one step per action. `CompletedGetsCredited` needs
only types. TLC checks `IInv` in `mobile_money`.

### Engagement

`EngagementProofs`, `BooksProofs`, `AutomationProofs` and `EngagementTypeProofs`,
from three assumptions: `StoreAssumption` (sets of contacts, executions, callers, keys,
files, lanes and
processes are finite, amounts and limits are numbers, and worlds are made of them; a row of
a file that names a contact has an address or a number, `Keyed`, as
`import.service.ts:139` asks), `ContactsAssumption` (there is a contact, contacts are
numbers, the lists that requests give are lists of tags) and `WorkflowAssumption` (a
workflow is a sequence of nodes and edges whose fields hold values of their kind, as
`WorkflowNode` and `RawWorkflowInput` declare them; nothing is assumed of the ids they
name). TLC evaluates all three in `engagement`. They hold for any worlds, workflows,
workers, backends, files and failures:

| theorem | says | what its invariant adds |
| --- | --- | --- |
| `KeysStayBounded` | at most one key too many for each request but one | `ApiInv`: a request that passed the count is itself counted (`create`), so the sum does not grow when it makes its key |
| `OverdraftStaysBounded` | the credit goes below zero at most by what the calls that are not sending could cost | `ApiInv`: what a call took and may still take is at most `MaxTo`; each call that charges leaves `send`, and what it may have cost is what the bound grows by |
| `UnsubscribedStaysOptedOut` | a row that is UNSUBSCRIBED belongs to a contact that is opted out | `ConsentInv`: a webhook that is about to mark the row has already withdrawn consent (`Marked`), and nobody gives it back (`NotAsked`) |
| `DeletedStaysStopped` | one message at most after the automation is deleted | `LateInv`: once it is deleted no execution has a row; one that sent then is on its way out (`Leaving`), and its job, run again, finds no row |
| `PurchasesStayBooked` | what the provider has is booked, except for failures and banks | `PurchasesInv`: payments counted by the place they are at |
| `CountedStaysOnce` | Resend's events are counted once per send, and missed only by failures | `CountInv`: a handler is at `count` only for an opening it wrote itself (`Openings`), so handlers, counters and rows add up |
| `EventsStayCounted` | from any source: in sum the counters fall behind only by failures, and never count more than arrived | `EventsInv`: handlers that have yet to count are part of what arrived (`Waiting`) |
| `SegmentStaysFresh` | with one worker and no failure, a segment nobody will count again shows what it has | `SegmentInv`: who has written a contact has yet to add a recalculation, one is waiting, or the worker has not counted yet (`UpToDate`); and nobody else writes contacts (`Alone`) |
| `ApiMessagesStayPaid` | what a call of the API handed to the provider, refused or not, is paid for, about to be, or its call threw or was cut short | `BillInv`: what was handed over is what was paid, plus what callers have in hand, plus at most `MaxTo` for each failure; only a caller in `send` has anything in hand |
| `BooksStayBalanced` | the credit is what it was, plus the card payments booked, less the messages paid for, except for failures | `BooksInv`: what is missing is one amount for each payment between its row and its credit, and at most one for each failure; `PlacedInv`: a message is paid for at a node of the workflow, by a worker that has the job |
| `MessagesStayBounded` | a failure repeats one message of a workflow that does not come back to where it was | `Limited`: what would be repeated if everything ahead of the worker, or of where its job would resume, went out again is covered by failures, but for one message that went out since the last node was stored (`Slack`) |
| `ImportsStayAccounted` | an import counts every row it read, reports no more new contacts than were added, and adds every row it can unless something failed | `ImportInv`: an import that is reading has counted as many rows as it is far (`Reading`); whoever it took is in the table, and the keys it knows are those of the table (`Held`), so a row is skipped only when its contact, or one with the same address or number, is there; what reports and imports under way count as new is together at most the contacts added |
| `WelcomedStaysOnce` | `contact_added` starts one execution for the row that added the contact, and one more per request at most | `WelcomeInv`: the executions a contact got, its events in the queue, and the requests that have one to emit or may come to it (`Welcome`) are at most one, if it was added, and the requests used (`Allowed`); nobody else starts an execution in such a world |
| `FiresStaysOnce` | an automation with a date gives a contact one execution per process and date, one for every day one per process and day, but for failures, and with a date one more for each run that began while one of its process was under way; and leaves its mark only when nobody was forgotten | `FiresInv`: the executions a contact has, the runs under way that still owe it one (`Owing`) and the processes that may begin a first run (`Ready`) are together at most processes times passes, plus failures, plus `Overtaken`; while a run that will leave a mark is under way, whoever is not on its list any more has an execution or had opted out (`Reached`) |
| `ExecutionsKeepPromise` | executions implement `ExecutionPromise` | `PromiseInv`: `AutomationInv`, and an execution whose row could not be created has no worker, no job and no cron about to add one (`Dropped`), so nothing is sent for it |
| `EngagementTypeCorrect` | every row, job, queue and process holds values of its kind | `TypeInv`: the invariants of the other theorems (`Known`), and what each part writes (`Recorded`, `AutomationsHold`, `ImportsHold`, `DeliveryHolds`, `BookHolds`) |
| `CompletedStaysDelivered` | without conditions, Completed means that every message ahead of the start went out | `Complete`: a message that did not go out is ahead of the worker, and of where its job would resume |

The common part comes first. A lemma per module says what it leaves alone
(`AutomationsFrame` ... `VisaFrame`), so that each invariant is only proved
against the modules that touch its variables; `Spends` and `FailuresGrow` say
that a step uses up at most one of the bounds, which is how "missed only when a
handler failed" becomes arithmetic. Handlers at a place are counted by
cardinalities; lemmas (`CallerGoes`, `VisaMoves`, `LanesAt`, `WaitingAt`) say how
one that goes on changes the number. TLC checks each of the properties in
`engagement`.

Some of these are about sums over callers, executions, nodes, and reports of
imports. The community
modules define a sum by recursion over sets, and the library's induction theorems
cannot be instantiated here, so `BooksProofs` begins with what it needs of one:
the function that is defined by that recursion exists (`SumsExist`, built from
the sums of smaller sets), so it can be unfolded (`SumIs`); and if one summand
changes the sum changes by as much (`SumChanges`), because otherwise there would
be a smallest set for which it does not, and there is none (the order of subsets
is well-founded). A report more is one summand more (`SumGrows`), by the same
argument.

*Welcomes* (`AutomationProofs`). Every step either leaves `Welcome(c)` alone or
makes it smaller (`WelcomesNobody`), moves one welcome from a request to the
queue or from the queue to an execution, or adds one together with what allows
it: a row that puts the contact in the table, or a request that is used up
(`WelcomeMoves`). A row adds its contact only if nobody has its address or number,
so who is announced was not in the table before; that takes `Keyed`, as a contact
with neither would never be found again. The executions are counted with those
that a listener is still making (`Given`).

*Dates* (`AutomationProofs`). A process that begins a run leaves `Ready` and
owes every contact on its list one execution; creating it moves one from `Owing`
to the executions. A run that dies gives the process back to `Ready` and costs a
failure, a day that passes or a date that is set fills `Ready` again and is one
pass more, and a run that begins beside one of its process is one more overtaken
(`FiresCounts`). The mark may be left by one process while another is
in the middle of its run, or be taken away by a new date: that is why the run
itself, and not only the mark, has to say who was reached (`FiresMoves`). The
bound is stated for automations that nobody starts by hand, and what the mark
means of contacts that do not opt in again in between: a contact that had opted
out when the list was made, and opts in before the mark is left, waits for the
next run. Nobody has to have opted in for an automation with a date, whose
targets are chosen without looking at consent.

*Executions* (`AutomationProofs`). The workflow is any graph. `Ahead(p)` is what
an execution at `p` may come to, the least set that has `p` and is closed under
`Follows`; what the proofs need of it (a node is ahead of itself, what is ahead
of a node's successors is ahead of the node and, the node itself apart, nothing
else is; without cycles a node is not ahead of its successors) follows from that
definition without induction: a set for which it failed would be a smaller closed
one, or a cycle. `Again(h, P)` is how many messages would have gone out more than
once if those of `P` went out again; it is a sum, and `BooksProofs` says how sums
change. Every one of the fifteen steps of a worker, its death, and what brings a
job to it are then shown to be one of five moves (`ExecutionMoves`): it unwinds, goes
on to what follows, catches an error, stores where to go on, or hands a message
over; and the two parts of the invariant are proved once per move. `Located`
says that the worker stands at a node of the kind of what it does. The failure
that a repetition needs is the one that `Unwinds` and `Catches` name: between
sending and storing the next node (`Slack`), only an error or a death makes a
worker leave, so that one message is repeated for it. An error that is caught
is repeated from the same node, which is why `caught` counts the message in.

*The promise* (`AutomationProofs`). Every step of a listener, a request or a worker
does one of five things to its execution (`ExecutionDoes`): nothing that shows,
start it, drop it, end it, or send; and each is a step of `ExecutionPromise` or a
stutter (`DoesPromised`). That ending is final needs `LateInv` and `Located`: a
job that is run again finds its row Completed or Failed and leaves before it
writes anything, and a worker past that point has a row that is Running, or none
at all. A message after the deletion is the abstract `Part`, which is possible
once per execution because one that sent then is `Leaving`. Steps of crons and
deletions are `CronPromised` and `DeletePromised`; what no execution is concerned
with is `NothingPromised`.

*Types* (`EngagementTypeProofs`). `EngagementTypeOK` is not inductive. That a
worker stands at a node that there is follows from `Located`; that a balance, a
tally or a counter is a number from the invariants that count it. What is added
says where values come from. A job has an attempt left when BullMQ hands it out,
so it never counts to one more than `Attempts` (`JobHolds`); an import is taken
only if it has one left, has a worker only while it is active, and reads no row
after its file's last (`Imported`); what is to be resumed stores a node or null,
never that it is done, until it ends (`AutomationsHold`); whatever a node leads to
is a number, though not always a node, which is why a worker looks it up before it
stands there; tags come from nodes, forms and rows of files; events name tags and
contacts; a segment's count is that of a set of contacts. There is one lemma per
part and kind of step, and TLC checks `EngagementTypeOK` in every world.

### Only model-checked

- The properties of campaigns outside the circumstances above: sending once and
  paying once when clients also cancel, reschedule and evaluate. Some of them are
  false there, see section 8.
- The liveness properties (`Settles`, `Completes`, `PickedUp`, `ExecutionsEnd`):
  liveness under fairness is out of the provers' reach, as are ENABLED and what
  recursive functions compute for every input.

## 8. What the code does besides, met while modelling

In the models, but without a run of their own:

- `update` of a contact evaluates its "previous" segments after the write
  (`contacts.service.ts:416-437`, `MatchBefore`): `segment.joined` is emitted only
  if another write intervenes between the two questions.
- Imports, tag nodes, webhooks and tracking links write contacts without a
  recalculation of segments; `SegmentCountFresh` is therefore stated of the
  contact book alone (`BookOnly`).
- A payment by card for which the payer's bank is asked (3-D Secure) ends the
  request (`stripe.provider.ts`), and the webhook that comes later finds no
  account in it (`webhook.service.ts:673`): it is never credited. `PurchasesBooked`
  counts those.
- `receiveWebhook` and tracking links count an event that is repeated again, and
  write statuses back; `CountedOnce` is stated of Resend, which compares.
- The cron of dates begins every minute, does not wait for its last run and leaves
  its mark when it ends, after a row and a job per contact
  (`automations.service.ts:493-545`). A run of more than a minute is overtaken by
  the next one of the same process, and everyone gets a second execution, without
  any failure. `FiresOnce` counts those runs (`Overtaken`); other processes do the
  same, as their number in the bound says.
- `sendSms` of the public API counts each number whose call to the provider does
  not throw (`public-api.controller.ts:185-189`), and the SMS providers answer
  `success: false` instead of throwing (`twilio.provider.ts:62-77`,
  `africastalking.provider.ts:72-96`, `novasend.provider.ts:52-72`): a message that
  was refused is paid for (`:199-206`) and reported as sent. `sendEmail` in the same
  file asks for `success` (`:257`). `ApiMessagesPaid` is therefore about what was
  handed to a provider (`apiTried`), not about what it took. Of two providers, the
  second one being asked when the first refuses (`sms.provider.factory.ts`), that
  is one message.
- The cron of dates writes the configuration it read at the start over a new
  date (`CronMarks`), and does not look at consent (`Targets`).
- A worker that has added the job of the next chunk and dies before its own is
  completed (`campaign.dispatch.queue.ts:462`) has its job run again beside that
  one, and both read the same PENDING rows. With several workers a contact is
  then written to twice, and paid for twice: both callbacks write SENT and take
  the credit. It takes two chunks, so `failures` is too small to show it, and
  `PaidOnceAndOnlyForSent` has the premise `NoRerun`; it is a counterexample of
  `PaidIfSent`, found in the attempt to prove it without (TLC's simulation shows
  it with six contacts, chunks of two, two workers and one death).
- A wait node that is the last of its workflow stores null as the node to go on
  with (`automations.service.ts:1011-1018`), and a job that is run again then
  starts at the first node (`:874`): one death repeats every message of the
  workflow. `Follows` therefore leads from such a node back to the start, and
  `MessagesBounded` is stated of workflows that are not `Cyclic`; the world
  `MessagesThenWait` is one where the bound fails.
- An evaluation on request and the evaluation job may pick different winners; the
  schedule cron writes SENDING over what became SENT or CANCELLED; a new date
  leaves the old job in place.

Not in the models: `refreshCount` writes a count that may come from the cache of
previews (`segments.service.ts:210-220`); anonymisation acts on a list read
before, so that a contact that opted in again meanwhile is anonymised too
(`gdpr-anonymization.service.ts:27-56`).

## 9. What is left out

- Campaigns: content, images, tracking links, reports, test messages,
  duplication, the notification mail, ABTestResult and CreditUsage rows. A
  campaign is plain or A/B from the start: `updateABConfig` and the second
  subject in saveDraft and update are not modelled. Openings and clicks are in
  `DeliveryEvents`, over one Send row per contact; in the campaign model the
  winner is a free choice wherever the comparison of rates may go both ways. One
  campaign; other campaigns appear as credit that disappears. Balances are
  naturals. The cron's batch of 100 campaigns.
- Permanent failures of SMS and WhatsApp are swallowed by the services: they are
  "not taken, not thrown" in `HandToProvider`, and such a send is recorded SENT.
- Mobile money: amounts, phone numbers, history queries; the cron's batch: each
  `Reconcile` reads one row at a time of its own.
- Automations: one automation of the account. The content of messages, purchase
  and field conditions, and a workflow that is edited while it is followed: an
  execution reads the workflow once per job, and `world.workflow` is what it
  reads.
- Import: parsing, and uploads in chunks or as a stream, which hand the same
  batches to `processBatch`.
- Delivery: subscriptions of clients to events and their delivery; the token in a
  link is valid; heatmaps and audit rows, which are written in the same
  transaction.
- Contacts and segments: notes, exports, lists, history; contacts are not
  removed, segments not
  created or deleted, and one segment is counted.
- Public API: calls other than sendSms, which read or hand over to services
  modelled elsewhere; the last use of a key.
- Card payments: development mode without a provider, receipts, the list of
  transactions. Anonymisation of contacts.
- The circuit breaker: it only stands around calls that answer their failures,
  and never opens. Authentication, accounts and members, webhooks'
  subscriptions, templates, analytics, audit logs, uploads: one or two
  statements per operation, or reports; nothing of the components modelled
  depends on them. Providers: HTTP clients, modelled by what their callers see.
  The frontend, more than half of the repository's lines, is user interface.

The map names about a thirteenth of the repository's lines. What carries state
between processes is in the backend, which is two fifths of them; most of the
rest of it is validation, reading and wording.
