------------------------------- MODULE Collection -------------------------------
(***************************************************************************)
(* An hour of collection as GitHub runs it (.github/workflows/collect.yml):*)
(* a run checks the branch data-snapshots out, asks the configured venues  *)
(* one after the other (providers.fetch_all, utils/net.py), saves what     *)
(* they answered and pushes the branch.  The workflow's concurrency group  *)
(* holds one running and one waiting run.  Venues change what they list    *)
(* while they are asked, answer with errors, and others push to the branch.*)
(***************************************************************************)
EXTENDS Venues, Sequences, FiniteSetsExt

CONSTANTS Machines,       \* machines a venue can list
          Configurations, \* the sets of venues whose keys are set
          MaxRetries,     \* net.MAX_RETRIES
          MaxRuns,        \* bound on the runs triggered
          MaxRelists,     \* bound on the changes of what a venue lists
          MaxKills,       \* bound on the jobs GitHub ends
          MaxOthers       \* bound on the pushes of others

VARIABLES listed,         \* venue -> machines it lists now
          configured,     \* venues whose keys are set
          branch,         \* data-snapshots: its version and the runs whose rows it has
          job,            \* run -> what became of it
          tree,           \* run -> its working copy of the branch
          next,           \* position in PROVIDERS
          call, attempt,  \* of the fetch in progress
          first,          \* the machines its first call met
          out,            \* offers of the batch so far
          seen,           \* venue -> what it listed during the batch (history)
          failed,         \* venues that gave no answer (history)
          relists, kills, others

fetch == <<next, call, attempt, first, out>>
ghosts == <<seen, failed>>
bounds == <<relists, kills, others>>
vars == <<listed, configured, branch, job, tree, fetch, ghosts, bounds>>

Runs == 1 .. MaxRuns
Ended == {"pushed", "refused", "failed", "replaced"}
Listings == {l \in SUBSET Machines : \A m, n \in l : m.model = n.model => m = n}

ASSUME CollectionAssumption ==
  /\ Machines \subseteq [model : STRING, gpus : Nat \ {0}, price : Nat, spot : Nat,
                         open : BOOLEAN]
  /\ Configurations \subseteq SUBSET Venues
  /\ MaxRetries \in Nat /\ MaxRuns \in Nat
  /\ MaxRelists \in Nat /\ MaxKills \in Nat /\ MaxOthers \in Nat

\* A venue is skipped unless all its keys are set.
Asked(n) == n \in DOMAIN Registry => Registry[n] \in configured

\* The position of the next venue that is asked, or the end of PROVIDERS.
UpNext(from) ==
  CHOOSE n \in from .. Len(Registry) + 1 : Asked(n) /\ \A k \in from .. n - 1 : ~Asked(k)

Init ==
  /\ configured \in Configurations
  /\ listed \in {l \in [Venues -> Listings] : \A v \in Venues \ configured : l[v] = {}}
  /\ branch = [version |-> 0, runs |-> {}]
  /\ job = [r \in Runs |-> "none"]
  /\ tree = [r \in Runs |-> [version |-> 0, runs |-> {}]]
  /\ next = UpNext(1) /\ call = 1 /\ attempt = 0 /\ first = {}
  /\ out = {}
  /\ seen = [v \in Venues |-> {listed[v]}]
  /\ failed = {}
  /\ relists = 0 /\ kills = 0 /\ others = 0
-------------------------------------------------------------------------------
(***************************************************************************)
(* The scheduler and its concurrency group (external).                     *)
(***************************************************************************)
With(state) == {r \in Runs : job[r] = state}
Running == With("fetching") \union With("saved")

\* The cron, or a manual dispatch, triggers the next run; a run that was
\* waiting is replaced.
Trigger ==
  \E r \in With("none") :
    /\ \A q \in With("none") : r <= q
    /\ job' = [q \in Runs |-> CASE q = r -> "waiting"
                                [] job[q] = "waiting" -> "replaced"
                                [] OTHER -> job[q]]
    /\ UNCHANGED <<listed, configured, branch, tree, fetch, ghosts, bounds>>

\* fetch_all has not been called, or has returned.
NoBatch ==
  /\ next' = UpNext(1) /\ call' = 1 /\ attempt' = 0 /\ first' = {} /\ out' = {}
  /\ seen' = [v \in Venues |-> {listed[v]}]
  /\ failed' = {}

\* Mutant: no concurrency group.
BeginBeside(r) ==
  /\ job[r] = "waiting"
  /\ With("fetching") = {}
  /\ job' = [job EXCEPT ![r] = "fetching"]
  /\ tree' = [tree EXCEPT ![r] = branch]
  /\ NoBatch
  /\ UNCHANGED <<listed, configured, branch, bounds>>

\* The job starts once no other run of the group is in progress, and checks
\* the branch out.
Begin(r) ==
  /\ job[r] = "waiting"
  /\ Running = {}
  /\ job' = [job EXCEPT ![r] = "fetching"]
  /\ tree' = [tree EXCEPT ![r] = branch]
  /\ NoBatch
  /\ UNCHANGED <<listed, configured, branch, bounds>>

\* The job, its disk with it, is lost at any step.
Kill(r) ==
  /\ r \in Running
  /\ kills < MaxKills
  /\ kills' = kills + 1
  /\ job' = [job EXCEPT ![r] = "failed"]
  /\ NoBatch
  /\ UNCHANGED <<listed, configured, branch, tree, relists, others>>

\* Somebody else pushes rows to the branch.
OtherPush ==
  /\ others < MaxOthers
  /\ others' = others + 1
  /\ branch' = [version |-> branch.version + 1,
                runs |-> branch.runs \union {0}]
  /\ UNCHANGED <<listed, configured, job, tree, fetch, ghosts, relists, kills>>
-------------------------------------------------------------------------------
(***************************************************************************)
(* fetch_all: one venue after the other.                                   *)
(***************************************************************************)
Fetching == With("fetching") # {} /\ next <= Len(Registry)
Venue == Registry[next]

\* A venue changes what it lists, while the venues are asked.
Relist(v) ==
  /\ Fetching
  /\ v \in configured
  /\ relists < MaxRelists
  /\ relists' = relists + 1
  /\ \E l \in Listings :
       /\ listed' = [listed EXCEPT ![v] = l]
       /\ seen' = [seen EXCEPT ![v] = @ \union {l}]
  /\ UNCHANGED <<configured, branch, job, tree, fetch, failed, kills, others>>

NextVenue ==
  /\ next' = UpNext(next + 1)
  /\ call' = 1
  /\ attempt' = 0
  /\ first' = {}

\* Mutant: an error of one venue ends the loop.
StopAtFailure ==
  /\ next' = Len(Registry) + 1
  /\ call' = 1
  /\ attempt' = 0
  /\ first' = {}

\* A venue whose fetch failed is left out; its earlier answers with it.
SkipFailed == NextVenue

\* A request is answered.
Answer ==
  /\ Fetching
  /\ IF call < Calls[Venue]
       THEN /\ call' = call + 1
            /\ attempt' = 0
            /\ first' = listed[Venue]
            /\ UNCHANGED <<next, out>>
       ELSE /\ out' = out \union Fetched(Venue, first, listed[Venue])
            /\ NextVenue
  /\ UNCHANGED <<listed, configured, branch, job, tree, seen, failed, bounds>>

\* attempt >= max_retries raises.
RetriesLeft == attempt < MaxRetries

\* A time-out, a lost connection or a server error: tried again.
Retry ==
  /\ Fetching
  /\ RetriesLeft
  /\ attempt' = attempt + 1
  /\ UNCHANGED <<listed, configured, branch, job, tree, next, call, first, out,
                 seen, failed, bounds>>

\* The retries are used up.
GiveUp ==
  /\ Fetching
  /\ ~RetriesLeft
  /\ failed' = failed \union {Venue}
  /\ SkipFailed
  /\ UNCHANGED <<listed, configured, branch, job, tree, out, seen, bounds>>

\* A client error, or a body that cannot be read: not worth a second request.
Refused ==
  /\ Fetching
  /\ failed' = failed \union {Venue}
  /\ SkipFailed
  /\ UNCHANGED <<listed, configured, branch, job, tree, out, seen, bounds>>

BatchOver(r) == job[r] = "fetching" /\ next > Len(Registry)

\* fetch_live_gpu_prices raises without an offer; the collector's step fails
\* and the push is skipped.
NoOffers(r) ==
  /\ BatchOver(r)
  /\ out = {}
  /\ job' = [job EXCEPT ![r] = "failed"]
  /\ NoBatch
  /\ UNCHANGED <<listed, configured, branch, tree, bounds>>

\* The collector saves the batch in the working copy.
Save(r) ==
  /\ BatchOver(r)
  /\ out # {}
  /\ job' = [job EXCEPT ![r] = "saved"]
  /\ tree' = [tree EXCEPT ![r].runs = @ \union {r}]
  /\ NoBatch
  /\ UNCHANGED <<listed, configured, branch, bounds>>

\* The branch is where it was when it was checked out.
FastForward(r) == branch.version = tree[r].version

\* Mutant: a refused push is tried again, without a new checkout.
PushAgain(r) ==
  /\ job[r] = "saved"
  /\ FastForward(r)
  /\ branch' = [version |-> branch.version + 1, runs |-> tree[r].runs]
  /\ job' = [job EXCEPT ![r] = "pushed"]
  /\ UNCHANGED <<listed, configured, tree, fetch, ghosts, bounds>>

\* git commit and git push.
Push(r) ==
  /\ job[r] = "saved"
  /\ IF FastForward(r)
       THEN /\ branch' = [version |-> branch.version + 1, runs |-> tree[r].runs]
            /\ job' = [job EXCEPT ![r] = "pushed"]
       ELSE /\ job' = [job EXCEPT ![r] = "refused"]
            /\ branch' = branch
  /\ UNCHANGED <<listed, configured, tree, fetch, ghosts, bounds>>

Batch == Answer \/ Retry \/ GiveUp \/ Refused
Step(r) == Begin(r) \/ NoOffers(r) \/ Save(r) \/ Push(r)

Next == \/ Trigger \/ Batch \/ OtherPush
        \/ \E r \in Runs : Step(r) \/ Kill(r)
        \/ \E v \in Venues : Relist(v)

\* GitHub starts the runs it holds and carries their steps out; a request ends,
\* by its time-out at the latest.
Fairness == WF_vars(Batch) /\ \A r \in Runs : WF_vars(Step(r))

Spec == Init /\ [][Next]_vars /\ Fairness
-------------------------------------------------------------------------------
(***************************************************************************)
(* Properties.                                                             *)
(***************************************************************************)
Offers == [venue : Venues, provider : Venues, model : {m.model : m \in Machines},
           lease : {"on_demand", "spot"}, price : Nat, availability : Nat]

Branches == [version : Nat, runs : SUBSET (0 .. MaxRuns)]

\* Type invariant; one run at most is in progress.
TypeOK ==
  /\ listed \in [Venues -> Listings]
  /\ configured \in SUBSET Venues
  /\ branch \in Branches
  /\ job \in [Runs -> {"none", "waiting", "fetching", "saved"} \union Ended]
  /\ tree \in [Runs -> Branches]
  /\ next \in 1 .. Len(Registry) + 1
  /\ call \in 1 .. 2
  /\ attempt \in 0 .. MaxRetries
  /\ first \in Listings
  /\ out \subseteq Offers
  /\ seen \in [Venues -> SUBSET Listings] /\ failed \subseteq Venues
  /\ relists \in Nat /\ kills \in Nat /\ others \in Nat
  /\ Cardinality(Running) <= 1

\* Units, leases and joins: an offer of the batch states, per GPU, the price of
\* a machine that the venue it is attributed to listed under that lease at some
\* moment of the batch, although each venue prices in a unit of its own and
\* what it lists can change between two calls.
OffersAreListed ==
  \A o \in out :
    \E l \in seen[o.venue] : \E m \in l :
      /\ m.model = o.model
      /\ o.price = IF o.lease = "spot" THEN m.spot ELSE m.price

\* One venue never sinks the batch: whatever the others answered, a machine
\* that was for rent, at a price, throughout the batch is in it, unless its own
\* venue failed.
AnsweredIsKept ==
  \A r \in Runs : BatchOver(r) => \A v \in configured \ failed :
    \A m \in Machines :
      m.open /\ m.price > 0 /\ (\A l \in seen[v] : m \in l) =>
        \E o \in out : o.venue = v /\ o.model = m.model /\ o.price = m.price

\* Every run ends, pushed or not: no venue keeps the group occupied.
RunsEnd == \A r \in Runs : job[r] \in {"waiting", "fetching"} ~> job[r] \in Ended

\* The concurrency group suffices: as long as nobody else pushes, no run finds
\* that the branch has moved, and the rows of every run that ended well are there.
PushesSucceed ==
  /\ others = 0 => With("refused") = {}
  /\ \A r \in With("pushed") : r \in branch.runs
===============================================================================
