---------------------------- MODULE JobContract ----------------------------
(***************************************************************************)
(* The two gates a job passes: the Master's (master_server/schema.py       *)
(* validate_job, app.py _create_job) and the Worker's                      *)
(* (worker_agent/schema.py validate_task_payload), with the payload the    *)
(* dispatcher builds in between (dispatcher.py _run_target).  What happens *)
(* to a job after that is in JobDispatch.                                  *)
(*                                                                         *)
(* Abstracted: texts are classes of texts; a value of a wrong JSON type is *)
(* refused alike by both gates and left out; the two outputs switches are  *)
(* passed on like pcap.                                                    *)
(***************************************************************************)
EXTENDS Naturals, Sequences, FiniteSets

CONSTANTS
    Machines,
    Texts,          \* the classes of texts
    Bodies,         \* the bodies a client may post
    Workers,        \* configurations of a Worker: [maxItems, allowed, installed]
    MasterMaxItems

\* The values that have the JSON types.
AnalysisShape == [pipeline : BOOLEAN, deletePcap : BOOLEAN, steps : Seq(Texts),
                  withCoframe : BOOLEAN, suffixes : Seq(Texts)]
ItemShape == [id : Texts, form : {"good", "bad"}]
TargetShape == [machine : Texts, browsers : Seq(Texts)]

ASSUME JobContractAssumption ==
    /\ Bodies \subseteq [id : Texts, items : Seq(ItemShape), targets : Seq(TargetShape),
                         pcap : BOOLEAN, analysis : AnalysisShape]
    /\ Workers \subseteq [maxItems : Nat, allowed : SUBSET Texts, installed : SUBSET Texts]
    /\ MasterMaxItems \in Nat
    /\ {"", "host", "chrome", "edge", "firefox"} \subseteq Texts

VARIABLES
    job,        \* the normalised job, or Nothing
    answer,     \* to the request: "none", "accepted", "refused"
    rows,       \* executions: [machine, item, browser]
    worker,     \* machine -> its configuration
    reachable,  \* the machines that answer
    enabled,    \* the machines the operator left enabled
    status,     \* machine -> status of its executions
    task        \* machine -> the task its Worker holds, or NoTask

contractVars == <<job, answer, rows, worker, reachable, enabled, status, task>>

Nothing == [id |-> "none"]
NoTask == [id |-> "none"]
AllowedSteps == {"extract", "classify", "infer"}
AllowedBrowsers == {"chrome", "edge", "firefox"}

-----------------------------------------------------------------------------
(* Normal forms. *)

\* The elements of s at the positions of I, in their order.
Rank(I, i) == Cardinality({j \in I : j <= i})
At(s, I) == [k \in 1 .. Cardinality(I) |-> s[CHOOSE i \in I : Rank(I, i) = k]]

\* list(dict.fromkeys(s)): the first of equal elements stays.
Dedupe(s) == At(s, {i \in DOMAIN s : \A j \in 1 .. i - 1 : s[j] # s[i]})

\* [x for x in s if x.strip()].
WithoutBlanks(s) == At(s, {i \in DOMAIN s : s[i] # "blank"})

Lower(browser) == IF browser = "CHROME" THEN "chrome" ELSE browser

\* strip().lower().lstrip("."): what is left of a suffix.
Suffix(raw) == CASE raw \in {".host", "HOST"} -> "host" [] raw = "dot" -> "" [] OTHER -> raw

\* worker_directory_id: an ID that is no directory name gets a derived one.
WorkerDirectoryId(id) == IF id \in {"reserved", "endsWithDot", "wide"} THEN "derived" ELSE id

-----------------------------------------------------------------------------
(* The rules both gates state, each in its own module. *)

ItemsFit(items, most) ==
    /\ Len(items) \in 1 .. most
    /\ \A i \in DOMAIN items : items[i].form = "good"
    /\ \A i, j \in DOMAIN items : items[i].id = items[j].id => i = j

\* pipeline, delete_pcap, steps and the options of the older analysis.
SwitchesFit(a, pcap) ==
    /\ a.pipeline => pcap
    /\ a.deletePcap => a.pipeline
    /\ a.pipeline => a.steps = <<>> /\ a.suffixes = <<>> /\ ~a.withCoframe
    /\ \A i \in DOMAIN a.steps : a.steps[i] \in AllowedSteps
    /\ a.steps # <<>> => pcap

\* Mutant: the switches are not held against pcap.
MasterAcceptsWithoutPcap(r) ==
    /\ r.id # "malformed"
    /\ ItemsFit(r.items, MasterMaxItems)
    /\ r.targets # <<>>
    /\ \A i, j \in DOMAIN r.targets : r.targets[i].machine = r.targets[j].machine => i = j
    /\ \A i \in DOMAIN r.targets :
          LET wanted == r.targets[i].browsers IN
          wanted # <<>> /\ \A k \in DOMAIN wanted : Lower(wanted[k]) \in AllowedBrowsers
    /\ SwitchesFit(r.analysis, TRUE)

\* validate_job.
MasterAccepts(r) ==
    /\ r.id # "malformed"
    /\ ItemsFit(r.items, MasterMaxItems)
    /\ r.targets # <<>>
    /\ \A i, j \in DOMAIN r.targets : r.targets[i].machine = r.targets[j].machine => i = j
    /\ \A i \in DOMAIN r.targets :
          LET wanted == r.targets[i].browsers IN
          wanted # <<>> /\ \A k \in DOMAIN wanted : Lower(wanted[k]) \in AllowedBrowsers
    /\ SwitchesFit(r.analysis, r.pcap)

\* Mutant: the steps are kept as they were written.
MasterNormalAsWritten(r) ==
    [id |-> r.id, items |-> r.items, pcap |-> r.pcap,
     targets |-> [i \in DOMAIN r.targets |->
                     [machine |-> r.targets[i].machine,
                      browsers |-> Dedupe([k \in DOMAIN r.targets[i].browsers |->
                                              Lower(r.targets[i].browsers[k])])]],
     analysis |-> [r.analysis EXCEPT
                     !.steps = @,
                     !.suffixes = LET kept == WithoutBlanks(@)
                                  IN  Dedupe([k \in DOMAIN kept |-> Suffix(kept[k])])]]

\* What validate_job returns: a blank suffix is left out, no other is looked at.
MasterNormal(r) ==
    [id |-> r.id, items |-> r.items, pcap |-> r.pcap,
     targets |-> [i \in DOMAIN r.targets |->
                     [machine |-> r.targets[i].machine,
                      browsers |-> Dedupe([k \in DOMAIN r.targets[i].browsers |->
                                              Lower(r.targets[i].browsers[k])])]],
     analysis |-> [r.analysis EXCEPT
                     !.steps = Dedupe(@),
                     !.suffixes = LET kept == WithoutBlanks(@)
                                  IN  Dedupe([k \in DOMAIN kept |-> Suffix(kept[k])])]]

\* validate_task_payload.
WorkerAccepts(p, w) ==
    /\ p.id \notin {"malformed", "wide"}
    /\ ItemsFit(p.items, w.maxItems)
    /\ p.browsers # <<>>
    /\ \A k \in DOMAIN p.browsers : Lower(p.browsers[k]) \in w.allowed
    /\ SwitchesFit(p.analysis, p.pcap)
    /\ \A k \in DOMAIN p.analysis.suffixes :
          p.analysis.suffixes[k] # "blank" /\ Suffix(p.analysis.suffixes[k]) \notin {"", "phrase"}

WorkerNormal(p) ==
    [p EXCEPT !.browsers = Dedupe([k \in DOMAIN @ |-> Lower(@[k])]),
              !.analysis.steps = Dedupe(@),
              !.analysis.suffixes = Dedupe([k \in DOMAIN @ |-> Suffix(@[k])])]

-----------------------------------------------------------------------------
(* The Master. *)

TargetOf(m) == CHOOSE i \in DOMAIN job.targets : job.targets[i].machine = m

ContractInit ==
    /\ job = Nothing /\ answer = "none" /\ rows = {}
    /\ worker \in [Machines -> Workers]
    /\ reachable = Machines /\ enabled = Machines
    /\ status = [m \in Machines |-> "none"]
    /\ task = [m \in Machines |-> NoTask]

\* create_job: one row for every machine, item and browser.
Row(m, item, browser) == [machine |-> m, item |-> item, browser |-> browser]
RowsOf(j) ==
    UNION {{Row(j.targets[i].machine, j.items[k].id, j.targets[i].browsers[b]) :
               k \in DOMAIN j.items, b \in DOMAIN j.targets[i].browsers} : i \in DOMAIN j.targets}

Post ==
    /\ answer = "none"
    /\ \E r \in Bodies :
          LET j == MasterNormal(r)
              machines == {j.targets[i].machine : i \in DOMAIN j.targets}
          IN  IF MasterAccepts(r) /\ machines \subseteq enabled
              THEN /\ answer' = "accepted" /\ job' = j /\ rows' = RowsOf(j)
                   /\ status' = [m \in Machines |-> IF m \in machines THEN "CREATED" ELSE "none"]
              ELSE answer' = "refused" /\ UNCHANGED <<job, rows, status>>
    /\ UNCHANGED <<worker, reachable, enabled, task>>

Payload(m) ==
    [id |-> WorkerDirectoryId(job.id), items |-> job.items, pcap |-> job.pcap,
     browsers |-> job.targets[TargetOf(m)].browsers, analysis |-> job.analysis]

Wanted(m) == {job.targets[TargetOf(m)].browsers[k] : k \in DOMAIN job.targets[TargetOf(m)].browsers}

\* detect_capabilities: a Worker names the browsers it has, not those it allows.
Capabilities(m) == worker[m].installed

CanServe(m) == Wanted(m) \subseteq Capabilities(m)

\* One round of the submission loop of _run_target.
Pending(m) == job # Nothing /\ status[m] \in {"CREATED", "WAITING_FOR_WORKER"}

Answered(m, s) == status' = [status EXCEPT ![m] = s] /\ UNCHANGED <<job, answer, rows, worker, reachable, enabled>>

\* The machine was disabled before its thread began, or began again after a
\* restart of the Master.
TargetGone(m) ==
    /\ Pending(m) /\ m \notin enabled
    /\ Answered(m, "FAILED") /\ UNCHANGED task

BrowserMissing(m) ==
    /\ Pending(m) /\ m \in reachable
    /\ ~CanServe(m)
    /\ Answered(m, "FAILED") /\ UNCHANGED task

\* The Worker takes the task, or names the one it has; its answer may be lost.
Taken(m) ==
    /\ Pending(m) /\ m \in reachable /\ CanServe(m)
    /\ WorkerAccepts(Payload(m), worker[m])
    /\ task' = [task EXCEPT ![m] = IF @ = NoTask THEN WorkerNormal(Payload(m)) ELSE @]
    /\ \E s \in {"QUEUED", "WAITING_FOR_WORKER"} : Answered(m, s)

\* WorkerRequestError, whether nobody answered or the Worker refused.
Waits(m) ==
    /\ Pending(m)
    /\ m \notin reachable \/ (CanServe(m) /\ ~WorkerAccepts(Payload(m), worker[m]))
    /\ Answered(m, "WAITING_FOR_WORKER") /\ UNCHANGED task

\* A machine leaves or comes back; the operator disables one.
Flip(m) ==
    /\ reachable' = IF m \in reachable THEN reachable \ {m} ELSE reachable \cup {m}
    /\ UNCHANGED <<job, answer, rows, worker, enabled, status, task>>

Disable(m) ==
    /\ enabled' = enabled \ {m}
    /\ UNCHANGED <<job, answer, rows, worker, reachable, status, task>>

ContractNext ==
    \/ Post
    \/ \E m \in Machines : TargetGone(m) \/ BrowserMissing(m) \/ Taken(m) \/ Waits(m) \/ Flip(m) \/ Disable(m)

ContractSpec == ContractInit /\ [][ContractNext]_contractVars

-----------------------------------------------------------------------------
(* Properties. *)

\* validate_job, validate_task_payload: what the Master has accepted a Worker
\* refuses for its own limits or for an SNI suffix, and for nothing else; the
\* name of the task is a directory on every system.
RefusalsAreTheWorkers ==
    \A m \in Machines : Pending(m) =>
        /\ WorkerDirectoryId(job.id) \notin {"reserved", "endsWithDot", "wide"}
        /\ \/ WorkerAccepts(Payload(m), worker[m])
           \/ Len(job.items) > worker[m].maxItems
           \/ ~(Wanted(m) \subseteq worker[m].allowed)
           \/ \E k \in DOMAIN job.analysis.suffixes : job.analysis.suffixes[k] \in {"", "phrase"}

Unit(item, browser) == [item |-> item, browser |-> browser]

\* create_job, submit: the task a Worker holds makes exactly the units the
\* Master has rows for, with the switches and steps of the Master's record.
RowsAreUnits ==
    \A m \in Machines : task[m] # NoTask =>
        /\ {Unit(r.item, r.browser) : r \in {x \in rows : x.machine = m}}
             = {Unit(task[m].items[i].id, task[m].browsers[b]) :
                   i \in DOMAIN task[m].items, b \in DOMAIN task[m].browsers}
        /\ task[m].analysis = job.analysis /\ task[m].pcap = job.pcap

\* master_server/README.md, "Worker temporarily offline or a network timeout:
\* the status becomes WAITING_FOR_WORKER": a Worker that answers is not waited
\* for, it takes the task or lacks a browser.
WaitingIsForTheNetwork ==
    \A m \in Machines : status[m] = "WAITING_FOR_WORKER" /\ m \in reachable =>
        ~CanServe(m) \/ WorkerAccepts(Payload(m), worker[m])

=============================================================================
