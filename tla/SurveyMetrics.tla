--------------------------- MODULE SurveyMetrics ---------------------------
(***************************************************************************)
(* Survey mode: the discovered processes, classified by the typer and      *)
(* given a service UID by the surveyor, reach two reporters, each with its *)
(* own channel, that keep one survey_info series per service for as long   *)
(* as the service has processes: the OTEL reporter and the Prometheus one. *)
(* An event carries a pointer to the FileInfo of its process, which the    *)
(* surveyor goes on writing, and a reporter reads it three times: the UID  *)
(* when it takes the event up, the attributes that it exports, and what it *)
(* remembers of them.                                                      *)
(***************************************************************************)
EXTENDS Integers, Sequences, FiniteSets

CONSTANTS
    PIDs, NoPID,
    Exes,            \* executables
    Containers,      \* Kubernetes containers
    NoUID,
    NoEvent,
    Exe,             \* the executable of each PID
    Parent,          \* the parent of each PID, NoPID if it is not discovered
    Container,       \* the container of each PID
    KeepUp,          \* TRUE: reporters handle every event before the next one is made
    MaxBatch         \* bound on the processes that are discovered at once

(* the UID of a service is its executable name, until the metadata of its  *)
(* container gives it the name and the instance of the container           *)
UIDs == Exes \cup Containers

INSTANCE PidServiceTracker

Reporters == {"otel", "prom"}

NoLang == "unknown"
Lang == "detected"

Attrs == [uid : UIDs, lang : {Lang, NoLang}]
NoAttrs == [uid |-> NoUID, lang |-> NoLang]

Events == [type : {"created", "terminated"}, pid : PIDs]

ASSUME SurveyAssumption ==
    /\ NoPID \notin PIDs
    /\ NoUID \notin UIDs
    /\ Exe \in [PIDs -> Exes]
    /\ Container \in [PIDs -> Containers]
    /\ Parent \in [PIDs -> PIDs \cup {NoPID}]
    /\ IsFiniteSet(PIDs)
    /\ \E depth \in [PIDs -> 0 .. Cardinality(PIDs)] :   \* nobody is its own ancestor
         \A p \in PIDs : Parent[p] # NoPID => depth[Parent[p]] < depth[p]
    /\ NoEvent \notin [type : {"created", "terminated"}, pid : PIDs, uid : UIDs]
    /\ KeepUp \in BOOLEAN
    /\ MaxBatch \in Nat

VARIABLES
    proc,        \* "new", "found" (in the typer's currentPids) or "dead"
    elfs,        \* processes of the current batch, still to be classified
    cached,      \* executables in the typer's instrumentableCache
    known,       \* containers whose metadata the Kubernetes store has
    file,        \* FileInfo.Service of each process
    renamed,     \* history: the UID of some process has changed
    inbox,       \* the events in the channel of each reporter
    cur,         \* the event a reporter is handling, with the UID it read
    looked,      \* the attributes that it read first for that event, or NoAttrs
    tracker,     \* the pidTracker of each reporter
    serviceMap,  \* the attributes each reporter has exported for each UID
    series,      \* value of each survey_info series, 0 where there is none
    torn         \* history: UIDs of which the Prometheus reporter remembered
                 \* other attributes than it exported

sourceVars == <<proc, elfs, cached, known, file, renamed>>
reporterVars == <<cur, looked, tracker, serviceMap, series, torn>>
surveyVars == <<sourceVars, inbox, reporterVars>>

SurveyInit ==
    /\ proc = [p \in PIDs |-> "new"]
    /\ elfs = <<>>
    /\ cached = {}
    /\ known = {}
    /\ file = [p \in PIDs |-> NoAttrs]
    /\ renamed = FALSE
    /\ inbox = [r \in Reporters |-> <<>>]
    /\ cur = [r \in Reporters |-> NoEvent]
    /\ looked = [r \in Reporters |-> NoAttrs]
    /\ tracker = [r \in Reporters |-> NewPidServiceTracker]
    /\ serviceMap = [r \in Reporters |-> [u \in UIDs |-> NoAttrs]]
    /\ series = [r \in Reporters |-> [a \in Attrs |-> 0]]
    /\ torn = {}

-----------------------------------------------------------------------------
(* Discovery *)

(* the metadata of a container reaches the Kubernetes store *)
MetadataArrives(c) ==
    /\ c \notin known
    /\ known' = known \cup {c}
    /\ UNCHANGED <<proc, elfs, cached, file, renamed, inbox, reporterVars>>

Batches == UNION {[1 .. n -> {p \in PIDs : proc[p] = "new"}] : n \in 1 .. MaxBatch}

(* first loop of FilterClassify: the batch enters currentPids as a whole *)
Discover(batch) ==
    /\ elfs = <<>>
    /\ \A i, j \in DOMAIN batch : i # j => batch[i] # batch[j]
    /\ proc' = [p \in PIDs |-> IF \E i \in DOMAIN batch : batch[i] = p THEN "found" ELSE proc[p]]
    /\ elfs' = batch
    /\ UNCHANGED <<cached, known, file, renamed, inbox, reporterVars>>

(* asInstrumentable: an executable that is not in the cache is replaced by *)
(* its topmost discovered ancestor that runs the same executable           *)
Forked(p) ==
    /\ Parent[p] # NoPID
    /\ proc[Parent[p]] = "found"
    /\ Exe[Parent[p]] = Exe[p]

(* p, and the ancestors that are reached from it while Forked holds        *)
lineage(p) ==
    {q \in PIDs : \A S \in SUBSET PIDs :
        p \in S /\ (\A x \in S : Forked(x) => Parent[x] \in S) => q \in S}

asInstrumentable(p) ==
    IF Exe[p] \in cached THEN p ELSE CHOOSE q \in lineage(p) : ~Forked(q)

Idle(r) == inbox[r] = <<>> /\ cur[r] = NoEvent

(* mutant of fetchMetadata: the executable name is not a default *)
fetchMetadataNoName(p, lang) ==
    [uid  |-> IF Container[p] \in known THEN Container[p] ELSE file[p].uid,
     lang |-> lang]

(* CopyToServiceAttributes and AppendKubeMetadata *)
fetchMetadata(p, lang) ==
    [uid  |-> IF Container[p] \in known THEN Container[p]
              ELSE IF file[p].uid = NoUID THEN Exe[p] ELSE file[p].uid,
     lang |-> lang]

(* an event of surveyor.run: it points to the FileInfo that is written     *)
Send(type, p, lang) ==
    /\ KeepUp => \A r \in Reporters : Idle(r)
    /\ file' = [file EXCEPT ![p] = fetchMetadata(p, lang)]
    /\ renamed' = (renamed \/ file[p].uid \notin {NoUID, file'[p].uid})
    /\ inbox' = [r \in Reporters |-> Append(inbox[r], [type |-> type, pid |-> p])]

SurveyCreated ==
    /\ elfs # <<>>
    /\ Send("created", asInstrumentable(Head(elfs)), Lang)
    /\ cached' = cached \cup {Exe[Head(elfs)]}
    /\ elfs' = Tail(elfs)
    /\ UNCHANGED <<proc, known, reporterVars>>

(* a terminated process travels without its type, so CopyToServiceAttributes *)
(* resets the language of its FileInfo                                       *)
SurveyTerminated(p) ==
    /\ elfs = <<>>
    /\ proc[p] = "found"
    /\ proc' = [proc EXCEPT ![p] = "dead"]
    /\ cached' = cached \ {Exe[p]}
    /\ Send("terminated", p, NoLang)
    /\ UNCHANGED <<elfs, known, reporterVars>>

-----------------------------------------------------------------------------
(* Reporters *)

(* a reporter receives an event and reads the UID of its service *)
Receive(r) ==
    /\ cur[r] = NoEvent
    /\ inbox[r] # <<>>
    /\ LET e == Head(inbox[r])
       IN  cur' = [cur EXCEPT ![r] = [type |-> e.type, pid |-> e.pid, uid |-> file[e.pid].uid]]
    /\ inbox' = [inbox EXCEPT ![r] = Tail(@)]
    /\ UNCHANGED <<sourceVars, looked, tracker, serviceMap, series, torn>>

(* it reads the attributes of the service for the first time; what it does *)
(* in between concerns no other goroutine                                  *)
Look(r) ==
    /\ cur[r] # NoEvent
    /\ cur[r].type = "created"
    /\ looked[r] = NoAttrs
    /\ looked' = [looked EXCEPT ![r] = file[cur[r].pid]]
    /\ UNCHANGED <<sourceVars, inbox, cur, tracker, serviceMap, series, torn>>

Handling(r, type) ==
    /\ cur[r] # NoEvent
    /\ cur[r].type = type
    /\ type = "created" => looked[r] # NoAttrs
    /\ cur' = [cur EXCEPT ![r] = NoEvent]
    /\ looked' = [looked EXCEPT ![r] = NoAttrs]
    /\ UNCHANGED <<sourceVars, inbox>>

Stale(r) ==
    /\ TracksPID(tracker[r], cur[r].pid)
    /\ tracker[r].svcOf[cur[r].pid] # cur[r].uid

(* what a reporter exports: the attributes of each UID and the series *)
Exported(r) == [map |-> serviceMap[r], series |-> series[r]]

Export(r, x) ==
    /\ serviceMap' = [serviceMap EXCEPT ![r] = x.map]
    /\ series' = [series EXCEPT ![r] = x.series]

Withdraw(x, attrs) ==
    IF attrs = NoAttrs THEN x ELSE [x EXCEPT !.series[attrs] = 0]

(* mutant of deleteSurveyInfo: the series stays *)
deleteSurveyInfoFromMap(x, uid) == [x EXCEPT !.map[uid] = NoAttrs]

deleteSurveyInfo(x, uid) ==
    [Withdraw(x, x.map[uid]) EXCEPT !.map[uid] = NoAttrs]

createOtel(x, uid, attrs) ==
    [x EXCEPT !.series[attrs] = @ + 1, !.map[uid] = attrs]

(* mutant of createProm: the attributes are not remembered *)
createPromUnrecorded(x, uid, labels, attrs) == [x EXCEPT !.series[labels] = 1]

createProm(x, uid, labels, attrs) ==
    [x EXCEPT !.series[labels] = 1, !.map[uid] = attrs]

(* the attributes that are exported are remembered, under the UID that is  *)
(* read after them                                                         *)
OtelCreated ==
    LET r == "otel"  pid == cur[r].pid  uid == cur[r].uid
        staleUID == tracker[r].svcOf[pid]  now == file[pid].uid
    IN  /\ Handling(r, "created")
        /\ \/ /\ Stale(r)
              /\ tracker' = [tracker EXCEPT ![r] = ReplaceUID(@, staleUID, uid)]
              /\ Export(r, createOtel(deleteSurveyInfo(Exported(r), staleUID), now, looked[r]))
           \/ /\ ~Stale(r)
              /\ tracker' = [tracker EXCEPT ![r] = AddPID(@, pid, now)]
              /\ Export(r, createOtel(deleteSurveyInfo(Exported(r), uid), now, looked[r]))
        /\ UNCHANGED torn

(* of a new UID the attributes are remembered and then read again to be    *)
(* exported; of the same UID they are exported and then read again         *)
PromCreated ==
    LET r == "prom"  pid == cur[r].pid  uid == cur[r].uid
        staleUID == tracker[r].svcOf[pid]  service == file[pid]
    IN  /\ Handling(r, "created")
        /\ \/ /\ Stale(r)
              /\ tracker' = [tracker EXCEPT ![r] = ReplaceUID(@, staleUID, uid)]
              /\ Export(r, IF serviceMap[r][staleUID] = NoAttrs THEN Exported(r)
                           ELSE createProm(deleteSurveyInfo(Exported(r), staleUID), uid, service, looked[r]))
           \/ /\ ~Stale(r)
              /\ tracker' = [tracker EXCEPT ![r] = AddPID(@, pid, uid)]
              /\ Export(r, createProm(Withdraw(Exported(r), serviceMap[r][uid]), uid, looked[r], service))
        /\ torn' = IF looked[r] = service THEN torn ELSE torn \cup {uid}

(* the Prometheus reporter falls back on the attributes of the event for   *)
(* a UID that it does not have                                             *)
Terminated(r) ==
    LET pid == cur[r].pid  origUID == tracker[r].svcOf[pid]
        gone == IF r = "prom" /\ serviceMap[r][origUID] = NoAttrs
                THEN Withdraw(Exported(r), file[pid])
                ELSE Exported(r)
    IN  /\ Handling(r, "terminated")
        /\ tracker' = [tracker EXCEPT ![r] = RemovePID(@, pid)]
        /\ Export(r, IF WasLastPID(tracker[r], pid) THEN deleteSurveyInfo(gone, origUID) ELSE Exported(r))
        /\ UNCHANGED torn

-----------------------------------------------------------------------------
SurveyNext ==
    \/ \E c \in Containers : MetadataArrives(c)
    \/ \E batch \in Batches : Discover(batch)
    \/ SurveyCreated
    \/ \E p \in PIDs : SurveyTerminated(p)
    \/ \E r \in Reporters : Receive(r) \/ Look(r) \/ Terminated(r)
    \/ OtelCreated
    \/ PromCreated

SurveySpec == SurveyInit /\ [][SurveyNext]_surveyVars

-----------------------------------------------------------------------------
(* The types of the state, and: no series counts more than once per        *)
(* process, and every event is taken up with a UID (fetchMetadata has set  *)
(* one before the event is sent).                                          *)
SurveyTypeOK ==
    /\ proc \in [PIDs -> {"new", "found", "dead"}]
    /\ elfs \in Seq(PIDs)
    /\ cached \subseteq Exes /\ renamed \in BOOLEAN
    /\ known \subseteq Containers
    /\ file \in [PIDs -> Attrs \cup {NoAttrs, [NoAttrs EXCEPT !.lang = Lang]}]
    /\ inbox \in [Reporters -> Seq(Events)]
    /\ looked \in [Reporters -> Attrs \cup {NoAttrs}] /\ torn \subseteq UIDs
    /\ \A r \in Reporters :
        /\ cur[r] = NoEvent \/ cur[r] \in [type : {"created", "terminated"}, pid : PIDs, uid : UIDs]
        /\ tracker[r] \in Trackers
        /\ serviceMap[r] \in [UIDs -> Attrs \cup {NoAttrs}]
        /\ series[r] \in [Attrs -> 0 .. Cardinality(PIDs)]

SeriesOf(r, uid) == {a \in Attrs : a.uid = uid /\ series[r][a] > 0}

(* The service of every process that an idle reporter tracks has exactly   *)
(* one survey_info series, of value 1: survey_info lists the available     *)
(* targets (docs/sources/configure/service-discovery.md:318).              *)
TrackedIsExported ==
    \A r \in Reporters : Idle(r) =>
        \A p \in PIDs :
            TracksPID(tracker[r], p) =>
                \E a \in Attrs : series[r][a] = 1 /\ SeriesOf(r, file[p].uid) = {a}

(* the reporter has read the attributes of the service while they were     *)
(* written, and deletes other series of it than it created                 *)
Leaks(r, uid) == r = "prom" /\ uid \in torn

(* As long as no process changes its UID, this is so, although each new    *)
(* process of a service deletes and creates the series again               *)
(* (onProcessEvent, handleProcessEvent), and although the attributes that  *)
(* an event points to may change before and while a reporter handles it.   *)
(* Only of a service whose attributes changed between the two times that   *)
(* handleProcessEvent reads them (prom_survey.go:207-208) may there be     *)
(* more series than one, but never none.                                   *)
ExportedUnlessRenamed ==
    ~renamed => \A r \in Reporters : Idle(r) =>
        \A p \in PIDs : TracksPID(tracker[r], p) =>
            \/ \E a \in Attrs : series[r][a] = 1 /\ SeriesOf(r, file[p].uid) = {a}
            \/ Leaks(r, file[p].uid) /\ SeriesOf(r, file[p].uid) # {}

(* As long as no process changes its UID, no other service is listed: once *)
(* a reporter has handled its events, each series names a service that a   *)
(* living process belongs to, but for series of the Prometheus reporter    *)
(* that it read while they changed: those it may never delete.             *)
OnlyLiveExported ==
    ~renamed => \A r \in Reporters : Idle(r) =>
        \A a \in Attrs : series[r][a] > 0 =>
            \/ \E p \in PIDs : proc[p] = "found" /\ file[p].uid = a.uid
            \/ Leaks(r, a.uid)

(* pidToService and servicePIDs are each other's inverse in both trackers, *)
(* as long as no process changes its UID (ReplaceUID overwrites the set of *)
(* PIDs that the new UID has): the end of the last process of a service is *)
(* noticed, and only then.                                                 *)
TrackersConsistent == ~renamed => \A r \in Reporters : Consistent(tracker[r])

SurveyedUIDs(r) == {u \in UIDs : SeriesOf(r, u) # {}}

(* The two reporters, which receive the same events at their own pace and  *)
(* treat them by separate code, list the same services once both have      *)
(* handled them, as long as no process changes its UID; the Prometheus     *)
(* reporter may go on listing services that it read while they changed.    *)
ReportersAgree ==
    ~renamed /\ (\A r \in Reporters : Idle(r)) =>
        /\ SurveyedUIDs("otel") \subseteq SurveyedUIDs("prom")
        /\ \A u \in SurveyedUIDs("prom") \ SurveyedUIDs("otel") : Leaks("prom", u)
=============================================================================
