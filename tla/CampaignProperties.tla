-------------------------- MODULE CampaignProperties --------------------------
(***************************************************************************)
(* What should be true of the campaign subsystem.  Which of these hold     *)
(* under which circumstances is what the runs say; see README.md.          *)
(***************************************************************************)
EXTENDS CampaignSystem

(* Every variable of the subsystem holds a value of its kind. *)
TypeOK ==
  /\ status \in CampaignStatus \cup {"DELETED"}
  /\ scheduledAt \in Nat \cup {Never}
  /\ isAB \in BOOLEAN
  /\ abWinner \in SendVariant
  /\ sentCount \in Nat /\ failedCount \in Nat
  /\ send \in [Contacts -> SendStatus \cup {"ABSENT"}]
  /\ variant \in [Contacts -> SendVariant]
  /\ optOut \in [Contacts -> BOOLEAN]
  /\ balance \in Nat
  /\ queue \in SUBSET [job : DispatchJob, at : Nat]
  /\ dead \in SUBSET DispatchJob /\ stalledOnce \in SUBSET DispatchJob
  /\ sched \in SchedState
  /\ now \in Nat
  /\ wpc \in [Workers -> WorkerPC]
  /\ wjob \in [Workers -> DispatchJob \cup {NoJob}]
  /\ wtask \in [Workers -> [Contacts -> TaskState]]
  /\ wseen \in [Workers -> [Contacts -> SendVariant]]
  /\ wpick \in [Workers -> SendVariant]
  /\ tpc \in TriggerPC
  /\ tadd \in Seq(JobAdd)
  /\ cpc \in [Crons -> CronPC]
  /\ rpc \in [Clients -> RequestPC]
  /\ req \in [Clients -> Request]
  /\ handed \in [Contacts -> Nat] /\ charged \in [Contacts -> Nat]
  /\ requests \in Nat /\ faults \in Nat /\ crashes \in Nat

-----------------------------------------------------------------------------
(* Safety *)

(* A contact gets the message of a campaign at most once, whatever jobs reach
   its row: the dispatch of its variant, of the whole campaign, of the next
   chunk, of the winner. *)
HandedOnce == \A c \in Contacts : handed[c] <= 1

(* When workers die, a contact is written to again at most once for each death:
   its row is still PENDING although the provider took the message, or a job
   that is run again reads it beside the job its first run had added.  A call
   that throws never makes the code write again. *)
HandedAgainOnlyAfterDeath ==
  \A c \in Contacts : handed[c] <= 1 + crashes

(* The account pays for a contact at most once, and only for a send that is
   recorded as SENT: no retry and no failure after the payment charges twice
   or leaves a paid send BOUNCED or PENDING (US-016).  That is so as long as no
   job is run beside what an earlier run of it left behind. *)
PaidIfSent ==
  \A c \in Contacts :
    charged[c] > 0 => charged[c] = 1 /\ (Exists => send[c] = "SENT")
NoRerun == crashes = 0 \/ \A w, v \in Workers : w = v
PaidOnceAndOnlyForSent == NoRerun => PaidIfSent

(* Nothing is sent for free while there is credit: a send recorded as SENT by
   a callback that has ended was paid for, unless the credit ran out. *)
SentIsPaid ==
  \A c \in Contacts :
    send[c] = "SENT" /\ (\A w \in Workers : wtask[w][c] # "charging") =>
      charged[c] = 1 \/ balance < UnitCost

(* sentCount and failedCount are what the Send rows say, except for the rows
   of chunks that are being handled. *)
Settling ==
  {c \in Contacts : \E w \in Workers : wpc[w] = "sending" /\ c \in ChunkOf(w)}
CountersMatchRows ==
  /\ sentCount = Cardinality({c \in Contacts \ Settling : send[c] = "SENT"})
  /\ failedCount =
       Cardinality({c \in Contacts \ Settling : send[c] \in {"BOUNCED", "UNSUBSCRIBED"}})

(* A campaign shown as SENT has no send left to do. *)
SentMeansDrained == status = "SENT" => Pending = {}

(* In an A/B campaign every message sent is one of the two variants, and the
   contacts outside the sample get the winner on record. *)
RemainderGetsWinner ==
  isAB => /\ \A c \in Contacts : send[c] = "SENT" => variant[c] \in Winners
          /\ \A w \in Workers : wjob[w].remaining => wjob[w].variant = abWinner

(* Nothing is queued, running or requested. *)
AtRest ==
  /\ queue = {} /\ \A w \in Workers : wpc[w] = "idle"
  /\ tpc = "idle" /\ sched.st # "queued"
  /\ \A i \in Crons : cpc[i] = "idle"
  /\ \A r \in Clients : rpc[r] = "idle"

(* handleEvaluateABWinner ran when nothing of the sample was SENT: it answers
   "not-enough-data" and is not run again. *)
GaveUp == isAB /\ abWinner = "NONE"

(* A campaign is not left SENDING with nobody to finish it: the last chunk
   marks it SENT (campaign.dispatch.queue.spec.ts, "marks the campaign as sent
   when the last dispatch chunk finishes").  The exception is an A/B test that
   was evaluated before anything of its sample was sent. *)
NotLeftSending == AtRest /\ status = "SENDING" => GaveUp

(* A campaign is FAILED only when the account could not pay for it, or a call
   threw (campaign.schedule.queue.spec.ts, "passe la campagne en FAILED si le
   solde est insuffisant").  It is never written over a campaign that could be
   paid for; it is, by the cron, when the balance has more digits than the
   cost. *)
FailedOnlyWhenBroke == status = "FAILED" => balance < EstimatedCost \/ faults > 0

-----------------------------------------------------------------------------
(* What the code says of itself and does not do; see the findings. *)

(* A campaign that is being sent or was sent stays, for reports and audits
   (campaigns.service.ts, NEW-T05): it is not deleted. *)
SentStays == [][~Exists' => ~(status \in {"SENDING", "SENT"})]_vars

(* Nothing of a scheduled campaign is sent in quiet hours
   (campaign.schedule.queue.ts, US-009). *)
QuietHoursRespected ==
  [][handed' # handed => ~(scheduledAt # Never /\ now \in QuietHours)]_vars

-----------------------------------------------------------------------------
(* The abstract specification *)

Promise == INSTANCE CampaignPromise WITH
  outcome <- [c \in Contacts |->
                CASE send[c] = "ABSENT" -> "none"
                  [] send[c] = "PENDING" -> "waiting"
                  [] send[c] = "SENT" -> "sent"
                  [] send[c] = "BOUNCED" -> "bounced"
                  [] send[c] = "UNSUBSCRIBED" -> "unsubscribed"],
  finished <- (status = "SENT")

(* The subsystem does what CampaignPromise says and nothing else to the sends
   and to the SENT status. *)
KeepsPromise == Promise!Spec

-----------------------------------------------------------------------------
(* Liveness *)

(* A campaign that is SENDING ends SENT, even if a worker dies once.  It does
   not when an A/B test never gets a winner, or when the worker that evaluates
   it dies between the winner and the winner's job. *)
Completes ==
  status = "SENDING" ~> (status = "SENT" \/ [](GaveUp) \/ (isAB /\ crashes > 0))

(* A campaign whose date has come does not stay SCHEDULED, whatever became of
   its job: it was lost, it failed, its worker died, or it was never added.
   The cron is there for that.  (It is all this says.  The cron writes SENDING
   whether or not the queue took the job it added.) *)
Due == status = "SCHEDULED" /\ scheduledAt # Never /\ scheduledAt <= now
PickedUp == Due ~> ~Due

=============================================================================
