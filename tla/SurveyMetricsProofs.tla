------------------------ MODULE SurveyMetricsProofs ------------------------
(* Proofs about SurveyMetrics, for any processes, executables, containers  *)
(* and process trees.                                                      *)
EXTENDS SurveyMetrics, NatMinimum, FiniteSetTheorems, FunctionTheorems, SequenceTheorems, TLAPS

Handled == [type : {"created", "terminated"}, pid : PIDs, uid : UIDs]

(* reporter r is handling, or will handle, an event of process p           *)
Now(r, type, p) == cur[r] # NoEvent /\ cur[r].type = type /\ cur[r].pid = p
Later(r, type, p) ==
    \E i \in DOMAIN inbox[r] : inbox[r][i].type = type /\ inbox[r][i].pid = p
Pending(r, type, p) == Now(r, type, p) \/ Later(r, type, p)

-----------------------------------------------------------------------------
(* The inductive invariant.                                                *)

SourceType ==
    /\ proc \in [PIDs -> {"new", "found", "dead"}]
    /\ elfs \in Seq(PIDs)
    /\ renamed \in BOOLEAN
    /\ file \in [PIDs -> [uid : UIDs \cup {NoUID}, lang : {Lang, NoLang}]]
    /\ inbox \in [Reporters -> Seq(Events)]
    /\ cur \in [Reporters -> Handled \cup {NoEvent}]
    /\ looked \in [Reporters -> Attrs \cup {NoAttrs}]
    /\ \A r \in Reporters : looked[r] # NoAttrs => cur[r] # NoEvent
    /\ torn \in SUBSET UIDs

(* Only processes that were found are sent, and a process that has not     *)
(* been sent has no UID.                                                   *)
SourceInv ==
    /\ \A i \in DOMAIN elfs : proc[elfs[i]] = "found"
    /\ \A p \in PIDs : proc[p] = "new" => file[p].uid = NoUID
    /\ \A p \in PIDs, r \in Reporters, type \in {"created", "terminated"} :
         Pending(r, type, p) => file[p].uid # NoUID

(* The end of a process is the last that a reporter hears of it.           *)
OrderInv(r) ==
    \A p \in PIDs :
        /\ Pending(r, "terminated", p) => proc[p] = "dead"
        /\ proc[p] = "dead" /\ Now(r, "created", p) => Later(r, "terminated", p)
        /\ proc[p] = "dead" =>
             \A i \in DOMAIN inbox[r] :
                 inbox[r][i].type = "created" /\ inbox[r][i].pid = p =>
                     \E j \in DOMAIN inbox[r] :
                         i < j /\ inbox[r][j].type = "terminated" /\ inbox[r][j].pid = p

(* What reporter r tracks, as long as no process changes its UID: the      *)
(* processes that were sent, each with its own UID, but for the events     *)
(* that it has not handled.                                                *)
TrackInv(r) ==
    /\ tracker[r] \in Trackers
    /\ Consistent(tracker[r])
    /\ cur[r] # NoEvent => cur[r].uid = file[cur[r].pid].uid
    /\ looked[r] # NoAttrs => looked[r].uid = cur[r].uid
    /\ \A p \in PIDs :
         /\ TracksPID(tracker[r], p) => tracker[r].svcOf[p] = file[p].uid
         /\ TracksPID(tracker[r], p) /\ proc[p] = "dead" => Pending(r, "terminated", p)
         /\ proc[p] = "found" /\ file[p].uid # NoUID =>
              TracksPID(tracker[r], p) \/ Pending(r, "created", p)

(* The exported series: the attributes x.map and the series fit each       *)
(* other, but for the UIDs in T, which have more series.                   *)
Exports == [map : [UIDs -> Attrs \cup {NoAttrs}], series : [Attrs -> Nat]]

Fit(x, T) ==
    /\ x \in Exports
    /\ \A u \in UIDs : x.map[u] # NoAttrs =>
         x.map[u].uid = u /\ \E a \in Attrs : a.uid = u /\ x.series[a] # 0
    /\ \A a \in Attrs : a.uid \notin T => x.series[a] = IF x.map[a.uid] = a THEN 1 ELSE 0

(* the UIDs of which reporter r has read attributes while they changed     *)
Torn(r) == IF r = "prom" THEN torn ELSE {}

(* What reporter r exports: the services that have processes.              *)
ExportInv(r) ==
    /\ Fit(Exported(r), Torn(r))
    /\ \A u \in UIDs : serviceMap[r][u] # NoAttrs <=> tracker[r].pidsOf[u] # {}

ReporterInv ==
    /\ DOMAIN tracker = Reporters /\ DOMAIN serviceMap = Reporters /\ DOMAIN series = Reporters
    /\ \A r \in Reporters : TrackInv(r) /\ ExportInv(r)

IInv ==
    /\ SourceType
    /\ SourceInv
    /\ \A r \in Reporters : OrderInv(r)
    /\ ~renamed => ReporterInv
-----------------------------------------------------------------------------
(* Discovery.                                                              *)

(* The process that is sent for p is one that was found: the chain of      *)
(* parents ends, and only leads through processes that were found.         *)
LEMMA RootFound ==
    ASSUME SourceType, NEW p \in PIDs, proc[p] = "found"
    PROVE  asInstrumentable(p) \in PIDs /\ proc[asInstrumentable(p)] = "found"
<1>1. p \in lineage(p)
  BY DEF lineage
<1>2. ASSUME NEW q \in lineage(p), Forked(q) PROVE Parent[q] \in lineage(p)
  <2>1. Parent[q] \in PIDs
    BY <1>2, SurveyAssumption DEF Forked, lineage
  <2> QED BY <1>2, <2>1 DEF lineage
<1>3. ASSUME NEW q \in lineage(p) PROVE q \in PIDs /\ proc[q] = "found"
  <2> DEFINE F == {x \in PIDs : proc[x] = "found"}
  <2>1. F \in SUBSET PIDs /\ p \in F
    OBVIOUS
  <2>2. \A x \in F : Forked(x) => Parent[x] \in F
    BY SurveyAssumption DEF Forked
  <2>3. q \in F
    BY <2>1, <2>2 DEF lineage
  <2> QED BY <2>3
<1>4. \E q \in lineage(p) : ~Forked(q)
  <2>1. PICK depth \in [PIDs -> 0 .. Cardinality(PIDs)] :
          \A x \in PIDs : Parent[x] # NoPID => depth[Parent[x]] < depth[x]
    BY SurveyAssumption
  <2> DEFINE D == {depth[x] : x \in lineage(p)}
  <2>2. D \in SUBSET Nat /\ D # {}
    BY <1>1, <1>3
  <2>3. PICK d \in D : \A e \in D : d <= e
    BY <2>2, LeastExists
  <2>4. PICK q \in lineage(p) : d = depth[q]
    OBVIOUS
  <2>5. ~Forked(q)
    <3> SUFFICES ASSUME Forked(q) PROVE FALSE
      OBVIOUS
    <3>1. Parent[q] \in lineage(p) /\ Parent[q] \in PIDs
      BY <1>2, <1>3
    <3>2. depth[Parent[q]] < depth[q] /\ depth[Parent[q]] \in D
      BY <1>3, <2>1, <3>1 DEF Forked
    <3> QED BY <2>2, <2>3, <2>4, <3>2
  <2> QED BY <2>5
<1>5. asInstrumentable(p) = p \/ asInstrumentable(p) \in lineage(p)
  BY <1>4 DEF asInstrumentable
<1> QED BY <1>3, <1>5

(* What Send does to the attributes and to the channels.                   *)
LEMMA SendFacts ==
    ASSUME SourceType, NEW type \in {"created", "terminated"}, NEW p \in PIDs,
           NEW lang \in {Lang, NoLang}, Send(type, p, lang)
    PROVE  /\ file' \in [PIDs -> [uid : UIDs \cup {NoUID}, lang : {Lang, NoLang}]]
           /\ file'[p].uid # NoUID
           /\ \A q \in PIDs \ {p} : file'[q] = file[q]
           /\ renamed' \in BOOLEAN
           /\ ~renamed' => ~renamed /\ file[p].uid \in {NoUID, file'[p].uid}
           /\ inbox' \in [Reporters -> Seq(Events)]
           /\ \A r \in Reporters :
                /\ Len(inbox[r]) \in Nat /\ DOMAIN inbox[r] = 1 .. Len(inbox[r])
                /\ DOMAIN inbox'[r] = 1 .. (Len(inbox[r]) + 1)
                /\ \A i \in DOMAIN inbox[r] : inbox'[r][i] = inbox[r][i]
                /\ inbox'[r][Len(inbox[r]) + 1] = [type |-> type, pid |-> p]
<1>1. PICK x : x = fetchMetadata(p, lang)
  OBVIOUS
<1>2. x \in [uid : UIDs \cup {NoUID}, lang : {Lang, NoLang}] /\ x.uid # NoUID
  <2>1. Container[p] \in UIDs /\ Exe[p] \in UIDs /\ NoUID \notin UIDs
    BY SurveyAssumption DEF UIDs
  <2>2. file[p].uid \in UIDs \cup {NoUID}
    BY DEF SourceType
  <2>3. PICK u \in UIDs : u = IF Container[p] \in known THEN Container[p]
                              ELSE IF file[p].uid = NoUID THEN Exe[p] ELSE file[p].uid
    BY <2>1, <2>2
  <2>4. x = [uid |-> u, lang |-> lang]
    BY <1>1, <2>3 DEF fetchMetadata
  <2> QED BY <2>1, <2>4
<1>3. /\ file' = [file EXCEPT ![p] = x]
      /\ renamed' = (renamed \/ file[p].uid \notin {NoUID, file'[p].uid})
      /\ inbox' = [r \in Reporters |-> Append(inbox[r], [type |-> type, pid |-> p])]
  BY <1>1 DEF Send
<1>4. /\ file' \in [PIDs -> [uid : UIDs \cup {NoUID}, lang : {Lang, NoLang}]]
      /\ file'[p] = x
      /\ \A q \in PIDs \ {p} : file'[q] = file[q]
  BY <1>2, <1>3 DEF SourceType
<1>5. PICK e \in Events : e = [type |-> type, pid |-> p]
  BY DEF Events
<1>6. ASSUME NEW r \in Reporters
      PROVE  /\ Append(inbox[r], e) \in Seq(Events)
             /\ Len(inbox[r]) \in Nat /\ DOMAIN inbox[r] = 1 .. Len(inbox[r])
             /\ DOMAIN Append(inbox[r], e) = 1 .. (Len(inbox[r]) + 1)
             /\ \A i \in DOMAIN inbox[r] : Append(inbox[r], e)[i] = inbox[r][i]
             /\ Append(inbox[r], e)[Len(inbox[r]) + 1] = e
  <2>1. inbox[r] \in Seq(Events)
    BY DEF SourceType
  <2> QED BY <2>1, AppendProperties, LenProperties
<1>7. inbox' \in [Reporters -> Seq(Events)]
  BY <1>3, <1>5, <1>6
<1>8. \A r \in Reporters : inbox'[r] = Append(inbox[r], e)
  BY <1>3, <1>5
<1> QED BY <1>2, <1>3, <1>4, <1>5, <1>6, <1>7, <1>8 DEF SourceType

(* The events that are pending after Send: one more.                       *)
LEMMA SendPending ==
    ASSUME SourceType, NEW type \in {"created", "terminated"}, NEW p \in PIDs,
           NEW lang \in {Lang, NoLang}, Send(type, p, lang),
           NEW r \in Reporters, NEW t \in {"created", "terminated"}, NEW q \in PIDs
    PROVE  Later(r, t, q)' <=> Later(r, t, q) \/ (t = type /\ q = p)
<1>1. /\ Len(inbox[r]) \in Nat /\ DOMAIN inbox[r] = 1 .. Len(inbox[r])
      /\ DOMAIN inbox'[r] = 1 .. (Len(inbox[r]) + 1)
      /\ \A i \in DOMAIN inbox[r] : inbox'[r][i] = inbox[r][i]
      /\ inbox'[r][Len(inbox[r]) + 1] = [type |-> type, pid |-> p]
  BY SendFacts
<1>2. DOMAIN inbox'[r] = DOMAIN inbox[r] \cup {Len(inbox[r]) + 1}
  BY <1>1
<1> QED BY <1>1, <1>2 DEF Later

(* What Receive does: the first event moves from the channel to the        *)
(* reporter, which reads the UID.                                          *)
LEMMA ReceiveFacts ==
    ASSUME SourceType, NEW r \in Reporters, Receive(r)
    PROVE  /\ cur[r] = NoEvent
           /\ Len(inbox[r]) \in Nat /\ 1 <= Len(inbox[r]) /\ DOMAIN inbox[r] = 1 .. Len(inbox[r])
           /\ inbox[r][1] \in Events
           /\ cur' = [cur EXCEPT ![r] = [type |-> inbox[r][1].type, pid |-> inbox[r][1].pid,
                                         uid  |-> file[inbox[r][1].pid].uid]]
           /\ inbox' \in [Reporters -> Seq(Events)]
           /\ \A s \in Reporters \ {r} : inbox'[s] = inbox[s] /\ cur'[s] = cur[s]
           /\ DOMAIN inbox'[r] = 1 .. (Len(inbox[r]) - 1)
           /\ \A i \in 1 .. (Len(inbox[r]) - 1) : inbox'[r][i] = inbox[r][i + 1]
<1>1. inbox[r] \in Seq(Events) /\ inbox[r] # <<>> /\ cur[r] = NoEvent
  BY DEF SourceType, Receive
<1>2. /\ Len(inbox[r]) \in Nat /\ 1 <= Len(inbox[r]) /\ DOMAIN inbox[r] = 1 .. Len(inbox[r])
      /\ Head(inbox[r]) = inbox[r][1] /\ inbox[r][1] \in Events
  BY <1>1
<1>3. /\ Tail(inbox[r]) \in Seq(Events)
      /\ DOMAIN Tail(inbox[r]) = 1 .. (Len(inbox[r]) - 1)
      /\ \A i \in 1 .. (Len(inbox[r]) - 1) : Tail(inbox[r])[i] = inbox[r][i + 1]
  BY <1>1, <1>2
<1>4. PICK s \in Seq(Events) : s = Tail(inbox[r])
  BY <1>3
<1>5. inbox' = [inbox EXCEPT ![r] = s]
  BY <1>4 DEF Receive
<1>6. /\ inbox' \in [Reporters -> Seq(Events)] /\ inbox'[r] = s
      /\ \A q \in Reporters \ {r} : inbox'[q] = inbox[q]
  BY <1>5 DEF SourceType
<1>7. cur' = [cur EXCEPT ![r] = [type |-> inbox[r][1].type, pid |-> inbox[r][1].pid,
                                 uid  |-> file[inbox[r][1].pid].uid]]
  BY <1>2 DEF Receive
<1>8. \A q \in Reporters \ {r} : cur'[q] = cur[q]
  BY <1>7 DEF SourceType
<1> QED BY <1>1, <1>2, <1>3, <1>4, <1>6, <1>7, <1>8

(* Receive changes no pending event.                                       *)
LEMMA ReceivePending ==
    ASSUME SourceType, SourceInv, NEW r \in Reporters, Receive(r)
    PROVE  /\ cur' \in [Reporters -> Handled \cup {NoEvent}]
           /\ cur'[r] # NoEvent /\ cur'[r].pid = inbox[r][1].pid
           /\ cur'[r].type = inbox[r][1].type /\ cur'[r].uid = file[inbox[r][1].pid].uid
           /\ \A s \in Reporters, t \in {"created", "terminated"}, q \in PIDs :
                Pending(s, t, q)' <=> Pending(s, t, q)
<1>1. /\ cur[r] = NoEvent
      /\ Len(inbox[r]) \in Nat /\ 1 <= Len(inbox[r]) /\ DOMAIN inbox[r] = 1 .. Len(inbox[r])
      /\ inbox[r][1] \in Events
      /\ cur' = [cur EXCEPT ![r] = [type |-> inbox[r][1].type, pid |-> inbox[r][1].pid,
                                    uid  |-> file[inbox[r][1].pid].uid]]
      /\ \A s \in Reporters \ {r} : inbox'[s] = inbox[s] /\ cur'[s] = cur[s]
      /\ DOMAIN inbox'[r] = 1 .. (Len(inbox[r]) - 1)
      /\ \A i \in 1 .. (Len(inbox[r]) - 1) : inbox'[r][i] = inbox[r][i + 1]
  BY ReceiveFacts
<1>2. PICK h \in Events : h = inbox[r][1]
  BY <1>1
<1>3. h.pid \in PIDs /\ h.type \in {"created", "terminated"} /\ file[h.pid].uid \in UIDs
  <2>1. h.pid \in PIDs /\ h.type \in {"created", "terminated"}
    BY DEF Events
  <2>2. 1 \in DOMAIN inbox[r]
    BY <1>1
  <2>3. Pending(r, h.type, h.pid)
    BY <1>2, <2>2 DEF Pending, Later
  <2>4. file[h.pid].uid # NoUID
    BY <2>1, <2>3 DEF SourceInv
  <2>5. file[h.pid].uid \in UIDs \cup {NoUID}
    BY <2>1 DEF SourceType
  <2> QED BY <2>1, <2>4, <2>5
<1>4. PICK c \in Handled : c = [type |-> h.type, pid |-> h.pid, uid |-> file[h.pid].uid]
  BY <1>3 DEF Handled
<1>5. c # NoEvent /\ c.type = h.type /\ c.pid = h.pid /\ c.uid = file[h.pid].uid
  BY <1>4, SurveyAssumption DEF Handled
<1>6. cur' = [cur EXCEPT ![r] = c]
  BY <1>1, <1>2, <1>4
<1>7. cur' \in [Reporters -> Handled \cup {NoEvent}] /\ cur'[r] = c
  BY <1>6 DEF SourceType
<1>8. ASSUME NEW t \in {"created", "terminated"}, NEW q \in PIDs
      PROVE  Pending(r, t, q)' <=> Pending(r, t, q)
  <2>1. Now(r, t, q)' <=> t = h.type /\ q = h.pid
    BY <1>5, <1>7 DEF Now
  <2>2. ~Now(r, t, q)
    BY <1>1 DEF Now
  <2>3. ASSUME Later(r, t, q) PROVE (t = h.type /\ q = h.pid) \/ Later(r, t, q)'
    <3>1. PICK i \in DOMAIN inbox[r] : inbox[r][i].type = t /\ inbox[r][i].pid = q
      BY <2>3 DEF Later
    <3>2. CASE i = 1
      BY <1>2, <3>1, <3>2
    <3>3. CASE i # 1
      <4>1. i - 1 \in 1 .. (Len(inbox[r]) - 1) /\ (i - 1) + 1 = i
        BY <1>1, <3>3
      <4>2. inbox'[r][i - 1] = inbox[r][i]
        BY <1>1, <4>1
      <4> QED BY <1>1, <3>1, <4>1, <4>2 DEF Later
    <3> QED BY <3>2, <3>3
  <2>4. ASSUME Later(r, t, q)' PROVE Later(r, t, q)
    <3>1. PICK i \in DOMAIN inbox'[r] : inbox'[r][i].type = t /\ inbox'[r][i].pid = q
      BY <2>4 DEF Later
    <3>2. i + 1 \in DOMAIN inbox[r] /\ inbox'[r][i] = inbox[r][i + 1]
      BY <1>1
    <3> QED BY <3>1, <3>2 DEF Later
  <2>5. t = h.type /\ q = h.pid => Later(r, t, q)
    <3>1. 1 \in DOMAIN inbox[r]
      BY <1>1
    <3> QED BY <1>2, <3>1 DEF Later
  <2> QED BY <2>1, <2>2, <2>3, <2>4, <2>5 DEF Pending
<1>9. ASSUME NEW s \in Reporters \ {r}, NEW t \in {"created", "terminated"}, NEW q \in PIDs
      PROVE  Pending(s, t, q)' <=> Pending(s, t, q)
  <2>1. inbox'[s] = inbox[s] /\ cur'[s] = cur[s]
    BY <1>1
  <2> QED BY <2>1 DEF Pending, Now, Later
<1> QED BY <1>2, <1>5, <1>7, <1>8, <1>9

(* What a reporter does when it is done with an event.                     *)
LEMMA HandlingFacts ==
    ASSUME SourceType, NEW r \in Reporters, NEW type \in {"created", "terminated"},
           Handling(r, type)
    PROVE  /\ cur' \in [Reporters -> Handled \cup {NoEvent}]
           /\ cur[r] \in Handled /\ cur[r] # NoEvent /\ cur[r].type = type
           /\ cur[r].pid \in PIDs /\ cur[r].uid \in UIDs
           /\ cur'[r] = NoEvent
           /\ \A s \in Reporters \ {r} : cur'[s] = cur[s] /\ looked'[s] = looked[s]
           /\ looked' \in [Reporters -> Attrs \cup {NoAttrs}] /\ looked'[r] = NoAttrs
           /\ type = "created" => looked[r] \in Attrs
           /\ UNCHANGED <<proc, elfs, file, renamed, inbox>>
           /\ \A s \in Reporters, t \in {"created", "terminated"}, q \in PIDs :
                /\ Later(s, t, q)' <=> Later(s, t, q)
                /\ Now(s, t, q)' <=> s # r /\ Now(s, t, q)
<1>1. /\ cur' = [cur EXCEPT ![r] = NoEvent] /\ looked' = [looked EXCEPT ![r] = NoAttrs]
      /\ UNCHANGED <<proc, elfs, file, renamed, inbox>>
  BY DEF Handling, sourceVars
<1>2. /\ cur' \in [Reporters -> Handled \cup {NoEvent}] /\ cur'[r] = NoEvent
      /\ \A s \in Reporters \ {r} : cur'[s] = cur[s] /\ looked'[s] = looked[s]
      /\ looked' \in [Reporters -> Attrs \cup {NoAttrs}] /\ looked'[r] = NoAttrs
  BY <1>1 DEF SourceType
<1>6. type = "created" => looked[r] \in Attrs
  BY DEF Handling, SourceType
<1>3. cur[r] \in Handled /\ cur[r] # NoEvent /\ cur[r].type = type
  BY DEF Handling, SourceType
<1>4. cur[r].pid \in PIDs /\ cur[r].uid \in UIDs
  BY <1>3 DEF Handled
<1>5. ASSUME NEW s \in Reporters, NEW t \in {"created", "terminated"}, NEW q \in PIDs
      PROVE  /\ Later(s, t, q)' <=> Later(s, t, q)
             /\ Now(s, t, q)' <=> s # r /\ Now(s, t, q)
  BY <1>1, <1>2 DEF Later, Now
<1> QED BY <1>1, <1>2, <1>3, <1>4, <1>5, <1>6

-----------------------------------------------------------------------------
(* The source and the channels, whatever happens to the UIDs.              *)
SourceIInv == SourceType /\ SourceInv /\ (\A r \in Reporters : OrderInv(r))

LEMMA SourceInit == SurveyInit => SourceIInv
<1> SUFFICES ASSUME SurveyInit PROVE SourceIInv
  OBVIOUS
<1> USE DEF SurveyInit
<1>1. SourceType
  <2>1. <<>> \in Seq(PIDs) /\ <<>> \in Seq(Events)
    OBVIOUS
  <2>2. NoAttrs \in [uid : UIDs \cup {NoUID}, lang : {Lang, NoLang}]
    BY DEF NoAttrs
  <2>3. /\ proc \in [PIDs -> {"new", "found", "dead"}] /\ elfs \in Seq(PIDs)
        /\ renamed \in BOOLEAN
    BY <2>1
  <2>4. /\ file \in [PIDs -> [uid : UIDs \cup {NoUID}, lang : {Lang, NoLang}]]
        /\ inbox \in [Reporters -> Seq(Events)]
    BY <2>1, <2>2
  <2>5. /\ cur \in [Reporters -> Handled \cup {NoEvent}]
        /\ looked \in [Reporters -> Attrs \cup {NoAttrs}] /\ \A r \in Reporters : looked[r] = NoAttrs
        /\ torn \in SUBSET UIDs
    OBVIOUS
  <2> QED BY <2>3, <2>4, <2>5 DEF SourceType
<1>2. ASSUME NEW r \in Reporters, NEW type, NEW p PROVE ~Pending(r, type, p)
  BY DEF Pending, Now, Later
<1>3. SourceInv
  BY <1>2 DEF SourceInv, NoAttrs
<1>4. ASSUME NEW r \in Reporters PROVE OrderInv(r)
  BY <1>2 DEF OrderInv
<1> QED BY <1>1, <1>3, <1>4 DEF SourceIInv

(* Nothing about the channels changes with the metadata of a container.    *)
LEMMA SourceUnchanged ==
    ASSUME SourceIInv, UNCHANGED <<proc, elfs, file, renamed, inbox, cur, looked, torn>>
    PROVE  SourceIInv'
<1>1. \A r \in Reporters : \A t, q :
        /\ Pending(r, t, q)' <=> Pending(r, t, q)
        /\ Now(r, t, q)' <=> Now(r, t, q)
        /\ Later(r, t, q)' <=> Later(r, t, q)
  BY DEF Pending, Now, Later
<1>2. SourceType' /\ SourceInv'
  BY <1>1 DEF SourceIInv, SourceType, SourceInv
<1>3. ASSUME NEW r \in Reporters PROVE OrderInv(r)'
  <2>1. OrderInv(r)
    BY DEF SourceIInv
  <2> QED BY <1>1, <2>1 DEF OrderInv
<1> QED BY <1>2, <1>3 DEF SourceIInv

LEMMA SourceDiscover ==
    ASSUME SourceIInv, NEW batch \in Batches, Discover(batch)
    PROVE  SourceIInv'
<1> USE DEF SourceIInv
<1>1. PICK n \in 1 .. MaxBatch : batch \in [1 .. n -> {p \in PIDs : proc[p] = "new"}]
  BY DEF Batches
<1>2. n \in Nat /\ batch \in Seq(PIDs) /\ DOMAIN batch = 1 .. n
  BY <1>1, SurveyAssumption
<1>3. /\ elfs' = batch
      /\ UNCHANGED <<file, renamed, inbox, cur, looked, torn>>
      /\ proc' = [p \in PIDs |-> IF \E i \in DOMAIN batch : batch[i] = p THEN "found" ELSE proc[p]]
  BY DEF Discover, reporterVars
<1>4. proc' \in [PIDs -> {"new", "found", "dead"}]
  BY <1>3 DEF SourceType
<1>5. \A i \in DOMAIN batch : proc'[batch[i]] = "found"
  BY <1>1, <1>3
<1>6. \A p \in PIDs : proc'[p] = "new" => proc[p] = "new"
  BY <1>3
<1>7. \A p \in PIDs : proc'[p] = "dead" <=> proc[p] = "dead"
  BY <1>1, <1>3
<1>8. \A r \in Reporters, t \in {"created", "terminated"}, q \in PIDs :
        /\ Pending(r, t, q)' <=> Pending(r, t, q)
        /\ Now(r, t, q)' <=> Now(r, t, q)
        /\ Later(r, t, q)' <=> Later(r, t, q)
  BY <1>3 DEF Pending, Now, Later
<1>9. SourceType'
  BY <1>2, <1>3, <1>4 DEF SourceType
<1>10. SourceInv'
  BY <1>3, <1>5, <1>6, <1>8 DEF SourceInv
<1>11. ASSUME NEW r \in Reporters PROVE OrderInv(r)'
  <2>1. OrderInv(r)
    OBVIOUS
  <2> QED BY <1>3, <1>7, <1>8, <2>1 DEF OrderInv
<1> QED BY <1>9, <1>10, <1>11

LEMMA SourceCreated ==
    ASSUME SourceIInv, SurveyCreated
    PROVE  /\ SourceIInv'
           /\ \E p \in PIDs : proc[p] = "found" /\ Send("created", p, Lang)
<1> USE DEF SourceIInv
<1>1. /\ elfs \in Seq(PIDs) /\ elfs # <<>> /\ elfs' = Tail(elfs)
      /\ UNCHANGED <<proc, cur, looked, torn>>
  BY DEF SurveyCreated, SourceType, reporterVars
<1>2. /\ Head(elfs) = elfs[1] /\ 1 \in DOMAIN elfs /\ Head(elfs) \in PIDs
      /\ Tail(elfs) \in Seq(PIDs)
      /\ \A i \in DOMAIN Tail(elfs) : i + 1 \in DOMAIN elfs /\ Tail(elfs)[i] = elfs[i + 1]
  BY <1>1
<1>3. proc[Head(elfs)] = "found"
  BY <1>2 DEF SourceInv
<1>4. PICK p \in PIDs : p = asInstrumentable(Head(elfs)) /\ proc[p] = "found"
  BY <1>2, <1>3, RootFound
<1>5. Send("created", p, Lang)
  BY <1>4 DEF SurveyCreated
<1>6. /\ file' \in [PIDs -> [uid : UIDs \cup {NoUID}, lang : {Lang, NoLang}]]
      /\ file'[p].uid # NoUID
      /\ \A q \in PIDs \ {p} : file'[q] = file[q]
      /\ renamed' \in BOOLEAN
      /\ inbox' \in [Reporters -> Seq(Events)]
      /\ \A r \in Reporters :
           /\ Len(inbox[r]) \in Nat /\ DOMAIN inbox[r] = 1 .. Len(inbox[r])
           /\ DOMAIN inbox'[r] = 1 .. (Len(inbox[r]) + 1)
           /\ \A i \in DOMAIN inbox[r] : inbox'[r][i] = inbox[r][i]
           /\ inbox'[r][Len(inbox[r]) + 1] = [type |-> "created", pid |-> p]
  BY <1>5, SendFacts
<1>7. \A r \in Reporters, t \in {"created", "terminated"}, q \in PIDs :
        /\ Later(r, t, q)' <=> Later(r, t, q) \/ (t = "created" /\ q = p)
        /\ Now(r, t, q)' <=> Now(r, t, q)
  <2>1. \A r \in Reporters, t \in {"created", "terminated"}, q \in PIDs :
          Later(r, t, q)' <=> Later(r, t, q) \/ (t = "created" /\ q = p)
    BY <1>5, SendPending
  <2> QED BY <1>1, <2>1 DEF Now
<1>8. SourceType'
  BY <1>1, <1>2, <1>6 DEF SourceType
<1>9. SourceInv'
  <2>1. \A i \in DOMAIN elfs' : proc'[elfs'[i]] = "found"
    BY <1>1, <1>2 DEF SourceInv
  <2>2. \A q \in PIDs : proc'[q] = "new" => file'[q].uid = NoUID
    BY <1>1, <1>4, <1>6 DEF SourceInv
  <2>3. ASSUME NEW q \in PIDs, NEW r \in Reporters, NEW t \in {"created", "terminated"},
               Pending(r, t, q)'
        PROVE  file'[q].uid # NoUID
    <3>1. Pending(r, t, q) \/ q = p
      BY <1>7, <2>3 DEF Pending
    <3> QED BY <1>6, <3>1 DEF SourceInv
  <2> QED BY <2>1, <2>2, <2>3 DEF SourceInv
<1>10. ASSUME NEW r \in Reporters PROVE OrderInv(r)'
  <2>1. ASSUME NEW q \in PIDs, Pending(r, "terminated", q)' PROVE proc'[q] = "dead"
    <3>1. Pending(r, "terminated", q)
      BY <1>7, <2>1 DEF Pending
    <3> QED BY <1>1, <3>1 DEF OrderInv
  <2>2. ASSUME NEW q \in PIDs, proc'[q] = "dead", Now(r, "created", q)'
        PROVE  Later(r, "terminated", q)'
    BY <1>1, <1>7, <2>2 DEF OrderInv
  <2>3. ASSUME NEW q \in PIDs, proc'[q] = "dead", NEW i \in DOMAIN inbox'[r],
               inbox'[r][i].type = "created", inbox'[r][i].pid = q
        PROVE  \E j \in DOMAIN inbox'[r] :
                  i < j /\ inbox'[r][j].type = "terminated" /\ inbox'[r][j].pid = q
    <3>1. q # p
      BY <1>1, <1>4, <2>3
    <3>2. i \in DOMAIN inbox[r] /\ inbox'[r][i] = inbox[r][i]
      BY <1>6, <2>3, <3>1
    <3>3. PICK j \in DOMAIN inbox[r] :
             i < j /\ inbox[r][j].type = "terminated" /\ inbox[r][j].pid = q
      BY <1>1, <2>3, <3>2 DEF OrderInv
    <3>4. j \in DOMAIN inbox'[r] /\ inbox'[r][j] = inbox[r][j]
      BY <1>6
    <3> QED BY <3>3, <3>4
  <2> QED BY <2>1, <2>2, <2>3 DEF OrderInv
<1> QED BY <1>4, <1>5, <1>8, <1>9, <1>10

LEMMA SourceTerminated ==
    ASSUME SourceIInv, NEW p \in PIDs, SurveyTerminated(p)
    PROVE  SourceIInv'
<1> USE DEF SourceIInv
<1>1. /\ elfs' = elfs /\ elfs = <<>> /\ cur' = cur /\ proc[p] = "found" /\ UNCHANGED <<looked, torn>>
      /\ proc' = [proc EXCEPT ![p] = "dead"] /\ Send("terminated", p, NoLang)
  BY DEF SurveyTerminated, reporterVars
<1>2. /\ proc' \in [PIDs -> {"new", "found", "dead"}] /\ proc'[p] = "dead"
      /\ \A q \in PIDs \ {p} : proc'[q] = proc[q]
  BY <1>1 DEF SourceType
<1>6. /\ file' \in [PIDs -> [uid : UIDs \cup {NoUID}, lang : {Lang, NoLang}]]
      /\ file'[p].uid # NoUID
      /\ \A q \in PIDs \ {p} : file'[q] = file[q]
      /\ renamed' \in BOOLEAN
      /\ inbox' \in [Reporters -> Seq(Events)]
      /\ \A r \in Reporters :
           /\ Len(inbox[r]) \in Nat /\ DOMAIN inbox[r] = 1 .. Len(inbox[r])
           /\ DOMAIN inbox'[r] = 1 .. (Len(inbox[r]) + 1)
           /\ \A i \in DOMAIN inbox[r] : inbox'[r][i] = inbox[r][i]
           /\ inbox'[r][Len(inbox[r]) + 1] = [type |-> "terminated", pid |-> p]
  BY <1>1, SendFacts
<1>7. \A r \in Reporters, t \in {"created", "terminated"}, q \in PIDs :
        /\ Later(r, t, q)' <=> Later(r, t, q) \/ (t = "terminated" /\ q = p)
        /\ Now(r, t, q)' <=> Now(r, t, q)
  <2>1. \A r \in Reporters, t \in {"created", "terminated"}, q \in PIDs :
          Later(r, t, q)' <=> Later(r, t, q) \/ (t = "terminated" /\ q = p)
    BY <1>1, SendPending
  <2> QED BY <1>1, <2>1 DEF Now
<1>8. SourceType'
  BY <1>1, <1>2, <1>6 DEF SourceType
<1>9. SourceInv'
  <2>1. \A i \in DOMAIN elfs' : proc'[elfs'[i]] = "found"
    BY <1>1
  <2>2. \A q \in PIDs : proc'[q] = "new" => file'[q].uid = NoUID
    BY <1>2, <1>6 DEF SourceInv
  <2>3. ASSUME NEW q \in PIDs, NEW r \in Reporters, NEW t \in {"created", "terminated"},
               Pending(r, t, q)'
        PROVE  file'[q].uid # NoUID
    <3>1. Pending(r, t, q) \/ q = p
      BY <1>7, <2>3 DEF Pending
    <3> QED BY <1>6, <3>1 DEF SourceInv
  <2> QED BY <2>1, <2>2, <2>3 DEF SourceInv
<1>10. ASSUME NEW r \in Reporters PROVE OrderInv(r)'
  <2>1. ASSUME NEW q \in PIDs, Pending(r, "terminated", q)' PROVE proc'[q] = "dead"
    <3>1. Pending(r, "terminated", q) \/ q = p
      BY <1>7, <2>1 DEF Pending
    <3> QED BY <1>2, <3>1 DEF OrderInv
  <2>2. ASSUME NEW q \in PIDs, proc'[q] = "dead", Now(r, "created", q)'
        PROVE  Later(r, "terminated", q)'
    BY <1>2, <1>7, <2>2 DEF OrderInv
  <2>3. ASSUME NEW q \in PIDs, proc'[q] = "dead", NEW i \in DOMAIN inbox'[r],
               inbox'[r][i].type = "created", inbox'[r][i].pid = q
        PROVE  \E j \in DOMAIN inbox'[r] :
                  i < j /\ inbox'[r][j].type = "terminated" /\ inbox'[r][j].pid = q
    <3>1. i \in DOMAIN inbox[r] /\ inbox'[r][i] = inbox[r][i]
      BY <1>6, <2>3
    <3>2. CASE q = p
      <4>1. Len(inbox[r]) + 1 \in DOMAIN inbox'[r] /\ i < Len(inbox[r]) + 1
        BY <1>6, <3>1
      <4> QED BY <1>6, <3>2, <4>1
    <3>3. CASE q # p
      <4>1. PICK j \in DOMAIN inbox[r] :
               i < j /\ inbox[r][j].type = "terminated" /\ inbox[r][j].pid = q
        BY <1>2, <2>3, <3>1, <3>3 DEF OrderInv
      <4>2. j \in DOMAIN inbox'[r] /\ inbox'[r][j] = inbox[r][j]
        BY <1>6
      <4> QED BY <4>1, <4>2
    <3> QED BY <3>2, <3>3
  <2> QED BY <2>1, <2>2, <2>3 DEF OrderInv
<1> QED BY <1>8, <1>9, <1>10

LEMMA SourceReceive ==
    ASSUME SourceIInv, NEW r \in Reporters, Receive(r)
    PROVE  SourceIInv'
<1> USE DEF SourceIInv
<1>1. UNCHANGED <<proc, elfs, file, renamed, looked, torn>>
  BY DEF Receive, sourceVars
<1>2. /\ cur[r] = NoEvent
      /\ Len(inbox[r]) \in Nat /\ 1 <= Len(inbox[r]) /\ DOMAIN inbox[r] = 1 .. Len(inbox[r])
      /\ inbox' \in [Reporters -> Seq(Events)]
      /\ \A s \in Reporters \ {r} : inbox'[s] = inbox[s] /\ cur'[s] = cur[s]
      /\ DOMAIN inbox'[r] = 1 .. (Len(inbox[r]) - 1)
      /\ \A i \in 1 .. (Len(inbox[r]) - 1) : inbox'[r][i] = inbox[r][i + 1]
  BY ReceiveFacts
<1>3. /\ cur' \in [Reporters -> Handled \cup {NoEvent}]
      /\ cur'[r] # NoEvent /\ cur'[r].pid = inbox[r][1].pid
      /\ cur'[r].type = inbox[r][1].type
      /\ \A s \in Reporters, t \in {"created", "terminated"}, q \in PIDs :
           Pending(s, t, q)' <=> Pending(s, t, q)
  BY ReceivePending
<1>4. SourceType'
  BY <1>1, <1>2, <1>3 DEF SourceType
<1>5. SourceInv'
  BY <1>1, <1>3 DEF SourceInv
<1>6. \A j \in DOMAIN inbox[r] : 1 < j =>
        /\ j - 1 \in DOMAIN inbox'[r]
        /\ inbox'[r][j - 1] = inbox[r][j]
  <2> SUFFICES ASSUME NEW j \in DOMAIN inbox[r], 1 < j
               PROVE  /\ j - 1 \in DOMAIN inbox'[r]
                      /\ inbox'[r][j - 1] = inbox[r][j]
    OBVIOUS
  <2>1. j - 1 \in 1 .. (Len(inbox[r]) - 1) /\ (j - 1) + 1 = j
    BY <1>2
  <2> QED BY <1>2, <2>1
<1>7. OrderInv(r)'
  <2>1. \A q \in PIDs : Pending(r, "terminated", q)' => proc'[q] = "dead"
    BY <1>1, <1>3 DEF OrderInv
  <2>2. ASSUME NEW q \in PIDs, proc'[q] = "dead", Now(r, "created", q)'
        PROVE  Later(r, "terminated", q)'
    <3>1. 1 \in DOMAIN inbox[r] /\ inbox[r][1].type = "created" /\ inbox[r][1].pid = q
      BY <1>2, <1>3, <2>2 DEF Now
    <3>2. PICK j \in DOMAIN inbox[r] :
             1 < j /\ inbox[r][j].type = "terminated" /\ inbox[r][j].pid = q
      BY <1>1, <2>2, <3>1 DEF OrderInv
    <3> QED BY <1>6, <3>2 DEF Later
  <2>3. ASSUME NEW q \in PIDs, proc'[q] = "dead", NEW i \in DOMAIN inbox'[r],
               inbox'[r][i].type = "created", inbox'[r][i].pid = q
        PROVE  \E j \in DOMAIN inbox'[r] :
                  i < j /\ inbox'[r][j].type = "terminated" /\ inbox'[r][j].pid = q
    <3>1. i + 1 \in DOMAIN inbox[r] /\ inbox'[r][i] = inbox[r][i + 1]
      BY <1>2
    <3>2. PICK j \in DOMAIN inbox[r] :
             i + 1 < j /\ inbox[r][j].type = "terminated" /\ inbox[r][j].pid = q
      BY <1>1, <2>3, <3>1 DEF OrderInv
    <3>3. 1 < j /\ i < j - 1
      BY <1>2, <3>2
    <3> QED BY <1>6, <3>2, <3>3
  <2> QED BY <2>1, <2>2, <2>3 DEF OrderInv
<1>8. ASSUME NEW s \in Reporters \ {r} PROVE OrderInv(s)'
  <2>1. OrderInv(s) /\ inbox'[s] = inbox[s] /\ cur'[s] = cur[s]
    BY <1>2
  <2> QED BY <1>1, <2>1 DEF OrderInv, Pending, Now, Later
<1> QED BY <1>4, <1>5, <1>7, <1>8

(* The attributes of an event that is being handled have a UID.            *)
LEMMA EventAttrs ==
    ASSUME SourceIInv, NEW r \in Reporters, cur[r] # NoEvent
    PROVE  cur[r].pid \in PIDs /\ cur[r].uid \in UIDs /\ file[cur[r].pid] \in Attrs
<1>1. /\ cur[r].pid \in PIDs /\ cur[r].uid \in UIDs
      /\ cur[r].type \in {"created", "terminated"}
  BY DEF SourceIInv, SourceType, Handled
<1>2. Pending(r, cur[r].type, cur[r].pid)
  BY <1>1 DEF Pending, Now
<1>3. file[cur[r].pid].uid # NoUID
  BY <1>1, <1>2 DEF SourceIInv, SourceInv
<1>4. file[cur[r].pid] \in [uid : UIDs \cup {NoUID}, lang : {Lang, NoLang}]
  BY <1>1 DEF SourceIInv, SourceType
<1> QED BY <1>1, <1>3, <1>4 DEF Attrs

LEMMA SourceLook ==
    ASSUME SourceIInv, NEW r \in Reporters, Look(r)
    PROVE  SourceIInv'
<1>1. /\ UNCHANGED <<proc, elfs, file, renamed, inbox, cur, torn>> /\ cur[r] # NoEvent
      /\ looked' = [looked EXCEPT ![r] = file[cur[r].pid]]
  BY DEF Look, sourceVars
<1>2. file[cur[r].pid] \in Attrs
  BY <1>1, EventAttrs
<1>3. /\ looked' \in [Reporters -> Attrs \cup {NoAttrs}]
      /\ \A s \in Reporters : looked'[s] # NoAttrs => cur[s] # NoEvent
  BY <1>1, <1>2 DEF SourceIInv, SourceType
<1>4. \A s \in Reporters : \A t, q :
        /\ Pending(s, t, q)' <=> Pending(s, t, q)
        /\ Now(s, t, q)' <=> Now(s, t, q)
        /\ Later(s, t, q)' <=> Later(s, t, q)
  BY <1>1 DEF Pending, Now, Later
<1>5. SourceType' /\ SourceInv'
  BY <1>1, <1>3, <1>4 DEF SourceIInv, SourceType, SourceInv
<1>6. ASSUME NEW s \in Reporters PROVE OrderInv(s)'
  <2>1. OrderInv(s)
    BY DEF SourceIInv
  <2> QED BY <1>1, <1>4, <2>1 DEF OrderInv
<1> QED BY <1>5, <1>6 DEF SourceIInv

LEMMA SourceHandling ==
    ASSUME SourceIInv, NEW r \in Reporters, NEW type \in {"created", "terminated"},
           Handling(r, type), torn' \in SUBSET UIDs
    PROVE  SourceIInv'
<1> USE DEF SourceIInv
<1>1. /\ cur' \in [Reporters -> Handled \cup {NoEvent}]
      /\ looked' \in [Reporters -> Attrs \cup {NoAttrs}]
      /\ \A s \in Reporters : looked'[s] # NoAttrs => cur'[s] # NoEvent
      /\ UNCHANGED <<proc, elfs, file, renamed, inbox>>
      /\ \A s \in Reporters, t \in {"created", "terminated"}, q \in PIDs :
           /\ Later(s, t, q)' <=> Later(s, t, q)
           /\ Now(s, t, q)' <=> s # r /\ Now(s, t, q)
  <2>1. SourceType
    OBVIOUS
  <2>2. /\ cur' \in [Reporters -> Handled \cup {NoEvent}]
        /\ looked' \in [Reporters -> Attrs \cup {NoAttrs}]
        /\ looked'[r] = NoAttrs
        /\ \A s \in Reporters \ {r} : cur'[s] = cur[s] /\ looked'[s] = looked[s]
        /\ UNCHANGED <<proc, elfs, file, renamed, inbox>>
    BY <2>1, HandlingFacts
  <2>3. \A s \in Reporters, t \in {"created", "terminated"}, q \in PIDs :
           /\ Later(s, t, q)' <=> Later(s, t, q)
           /\ Now(s, t, q)' <=> s # r /\ Now(s, t, q)
    BY <2>1, HandlingFacts
  <2>4. \A s \in Reporters : looked[s] # NoAttrs => cur[s] # NoEvent
    BY <2>1 DEF SourceType
  <2>5. \A s \in Reporters : looked'[s] # NoAttrs => cur'[s] # NoEvent
    BY <2>2, <2>4
  <2> QED BY <2>2, <2>3, <2>5
<1>2. \A s \in Reporters, t \in {"created", "terminated"}, q \in PIDs :
        Pending(s, t, q)' => Pending(s, t, q)
  BY <1>1 DEF Pending
<1>3. SourceType'
  BY <1>1 DEF SourceType
<1>4. SourceInv'
  BY <1>1, <1>2 DEF SourceInv
<1>5. ASSUME NEW s \in Reporters PROVE OrderInv(s)'
  <2>1. OrderInv(s)
    OBVIOUS
  <2> QED BY <1>1, <1>2, <2>1 DEF OrderInv
<1> QED BY <1>3, <1>4, <1>5

LEMMA SourceNext == SourceIInv /\ [SurveyNext]_surveyVars => SourceIInv'
<1> SUFFICES ASSUME SourceIInv, [SurveyNext]_surveyVars PROVE SourceIInv'
  OBVIOUS
<1>1. ASSUME NEW c \in Containers, MetadataArrives(c) PROVE SourceIInv'
  BY <1>1, SourceUnchanged DEF MetadataArrives, reporterVars
<1>2. ASSUME NEW batch \in Batches, Discover(batch) PROVE SourceIInv'
  BY <1>2, SourceDiscover
<1>3. ASSUME SurveyCreated PROVE SourceIInv'
  BY <1>3, SourceCreated
<1>4. ASSUME NEW p \in PIDs, SurveyTerminated(p) PROVE SourceIInv'
  BY <1>4, SourceTerminated
<1>5. ASSUME NEW r \in Reporters, Receive(r) PROVE SourceIInv'
  BY <1>5, SourceReceive
<1>10. ASSUME NEW r \in Reporters, Look(r) PROVE SourceIInv'
  BY <1>10, SourceLook
<1>6. ASSUME NEW r \in Reporters, Terminated(r) PROVE SourceIInv'
  <2>1. Handling(r, "terminated") /\ torn' \in SUBSET UIDs
    BY <1>6 DEF Terminated, SourceIInv, SourceType
  <2> QED BY <2>1, SourceHandling
<1>7. ASSUME OtelCreated PROVE SourceIInv'
  <2>1. Handling("otel", "created") /\ "otel" \in Reporters /\ torn' \in SUBSET UIDs
    BY <1>7 DEF OtelCreated, Reporters, SourceIInv, SourceType
  <2> QED BY <2>1, SourceHandling
<1>8. ASSUME PromCreated PROVE SourceIInv'
  <2>1. Handling("prom", "created") /\ "prom" \in Reporters
    BY <1>8 DEF PromCreated, Reporters
  <2>2. cur["prom"].uid \in UIDs
    BY <2>1, EventAttrs DEF Handling
  <2>3. torn' \in SUBSET UIDs
    BY <1>8, <2>2 DEF PromCreated, SourceIInv, SourceType
  <2> QED BY <2>1, <2>3, SourceHandling
<1>9. CASE UNCHANGED surveyVars
  BY <1>9, SourceUnchanged DEF surveyVars, sourceVars, reporterVars
<1> QED BY <1>1, <1>2, <1>3, <1>4, <1>5, <1>6, <1>7, <1>8, <1>9, <1>10 DEF SurveyNext

-----------------------------------------------------------------------------
(* The tracker.                                                            *)

(* A PID that is new, or that the service has already, is added.           *)
LEMMA AddPIDFacts ==
    ASSUME NEW t \in Trackers, Consistent(t), NEW p \in PIDs, NEW u \in UIDs,
           t.svcOf[p] \in {NoUID, u}
    PROVE  /\ AddPID(t, p, u) \in Trackers /\ Consistent(AddPID(t, p, u))
           /\ AddPID(t, p, u).svcOf[p] = u
           /\ \A q \in PIDs \ {p} : AddPID(t, p, u).svcOf[q] = t.svcOf[q]
           /\ \A v \in UIDs : AddPID(t, p, u).pidsOf[v] # {} <=> t.pidsOf[v] # {} \/ v = u
<1>1. PICK f \in [PIDs -> UIDs \cup {NoUID}] : f = [t.svcOf EXCEPT ![p] = u]
  BY DEF Trackers
<1>2. PICK g \in [UIDs -> SUBSET PIDs] : g = [t.pidsOf EXCEPT ![u] = @ \cup {p}]
  BY DEF Trackers
<1>3. /\ f[p] = u /\ \A q \in PIDs \ {p} : f[q] = t.svcOf[q]
      /\ g[u] = t.pidsOf[u] \cup {p} /\ \A v \in UIDs \ {u} : g[v] = t.pidsOf[v]
  BY <1>1, <1>2 DEF Trackers
<1>4. AddPID(t, p, u) = [svcOf |-> f, pidsOf |-> g]
  BY <1>1, <1>2 DEF AddPID
<1>5. \A v \in UIDs : g[v] = {q \in PIDs : f[q] = v}
  BY <1>3, SurveyAssumption DEF Consistent
<1>6. AddPID(t, p, u) \in Trackers /\ AddPID(t, p, u).svcOf = f /\ AddPID(t, p, u).pidsOf = g
  BY <1>4 DEF Trackers
<1>7. Consistent(AddPID(t, p, u))
  BY <1>5, <1>6 DEF Consistent
<1> QED BY <1>3, <1>6, <1>7

(* A PID is removed, and its service with the last one.                    *)
LEMMA RemovePIDFacts ==
    ASSUME NEW t \in Trackers, Consistent(t), NEW p \in PIDs
    PROVE  /\ RemovePID(t, p) \in Trackers /\ Consistent(RemovePID(t, p))
           /\ RemovePID(t, p).svcOf[p] = NoUID
           /\ \A q \in PIDs \ {p} : RemovePID(t, p).svcOf[q] = t.svcOf[q]
           /\ \A v \in UIDs :
                RemovePID(t, p).pidsOf[v] # {} <=>
                    t.pidsOf[v] # {} /\ ~(v = t.svcOf[p] /\ WasLastPID(t, p))
<1>1. PICK f \in [PIDs -> UIDs \cup {NoUID}] : f = [t.svcOf EXCEPT ![p] = NoUID]
  BY DEF Trackers
<1>2. PICK g \in [UIDs -> SUBSET PIDs] :
         g = [u \in UIDs |-> IF u = t.svcOf[p] THEN t.pidsOf[u] \ {p} ELSE t.pidsOf[u]]
  BY DEF Trackers
<1>3. /\ f[p] = NoUID /\ \A q \in PIDs \ {p} : f[q] = t.svcOf[q]
      /\ \A v \in UIDs : g[v] = IF v = t.svcOf[p] THEN t.pidsOf[v] \ {p} ELSE t.pidsOf[v]
  BY <1>1, <1>2 DEF Trackers
<1>4. RemovePID(t, p) = [svcOf |-> f, pidsOf |-> g]
  BY <1>1, <1>2 DEF RemovePID
<1>5. \A v \in UIDs : g[v] = {q \in PIDs : f[q] = v}
  BY <1>3, SurveyAssumption DEF Consistent
<1>6. RemovePID(t, p) \in Trackers /\ RemovePID(t, p).svcOf = f /\ RemovePID(t, p).pidsOf = g
  BY <1>4 DEF Trackers
<1>7. Consistent(RemovePID(t, p))
  BY <1>5, <1>6 DEF Consistent
<1>8. ASSUME NEW v \in UIDs
      PROVE  g[v] # {} <=> t.pidsOf[v] # {} /\ ~(v = t.svcOf[p] /\ WasLastPID(t, p))
  <2>1. CASE v # t.svcOf[p]
    BY <1>3, <2>1
  <2>2. CASE v = t.svcOf[p]
    <3>1. g[v] = t.pidsOf[v] \ {p} /\ v # NoUID
      BY <1>3, <2>2, SurveyAssumption
    <3>2. WasLastPID(t, p) <=> t.pidsOf[v] # {} /\ t.pidsOf[v] \subseteq {p}
      BY <2>2, <3>1 DEF WasLastPID
    <3>3. g[v] = {} <=> t.pidsOf[v] \subseteq {p}
      BY <3>1
    <3> QED BY <2>2, <3>1, <3>2, <3>3
  <2> QED BY <2>1, <2>2
<1> QED BY <1>3, <1>6, <1>7, <1>8

-----------------------------------------------------------------------------
(* The exported series.                                                    *)
LEMMA AttrsFacts ==
    /\ NoAttrs \notin Attrs
    /\ \A a \in Attrs : a.uid \in UIDs
<1>1. NoAttrs.uid = NoUID
  BY DEF NoAttrs
<1>2. \A a \in Attrs : a.uid \in UIDs
  BY DEF Attrs
<1> QED BY <1>1, <1>2, SurveyAssumption

LEMMA WithdrawFacts ==
    ASSUME NEW x \in Exports, NEW T, Fit(x, T), NEW u \in UIDs
    PROVE  /\ Withdraw(x, x.map[u]) \in Exports
           /\ Withdraw(x, x.map[u]).map = x.map
           /\ \A a \in Attrs : a.uid # u => Withdraw(x, x.map[u]).series[a] = x.series[a]
           /\ \A a \in Attrs : a.uid = u /\ u \notin T => Withdraw(x, x.map[u]).series[a] = 0
<1>1. CASE x.map[u] = NoAttrs
  <2>1. Withdraw(x, x.map[u]) = x
    BY <1>1 DEF Withdraw
  <2>2. \A a \in Attrs : a.uid = u => x.map[a.uid] # a
    BY <1>1, AttrsFacts
  <2> QED BY <2>1, <2>2 DEF Fit
<1>2. CASE x.map[u] # NoAttrs
  <2>1. PICK b \in Attrs : b = x.map[u] /\ b.uid = u
    BY <1>2 DEF Fit, Exports
  <2>2. PICK y : y = [x EXCEPT !.series[b] = 0]
    OBVIOUS
  <2>3. Withdraw(x, x.map[u]) = y
    BY <1>2, <2>1, <2>2 DEF Withdraw
  <2>4. y \in Exports /\ y.map = x.map /\ y.series = [x.series EXCEPT ![b] = 0]
    BY <2>2 DEF Exports
  <2>5. y.series[b] = 0 /\ \A a \in Attrs \ {b} : y.series[a] = x.series[a]
    BY <2>4 DEF Exports
  <2>6. \A a \in Attrs : a.uid = u /\ u \notin T => y.series[a] = 0
    BY <2>1, <2>5 DEF Fit
  <2> QED BY <2>1, <2>3, <2>4, <2>5, <2>6
<1> QED BY <1>1, <1>2

(* deleteSurveyInfo leaves the UID without attributes and, unless it is in *)
(* T, without series.                                                      *)
LEMMA DeletedFits ==
    ASSUME NEW x \in Exports, NEW T, Fit(x, T), NEW u \in UIDs
    PROVE  /\ Fit(deleteSurveyInfo(x, u), T)
           /\ deleteSurveyInfo(x, u).map[u] = NoAttrs
           /\ \A v \in UIDs \ {u} : deleteSurveyInfo(x, u).map[v] = x.map[v]
<1>1. PICK y \in Exports :
        /\ y = Withdraw(x, x.map[u]) /\ y.map = x.map
        /\ \A a \in Attrs : a.uid # u => y.series[a] = x.series[a]
        /\ \A a \in Attrs : a.uid = u /\ u \notin T => y.series[a] = 0
  BY WithdrawFacts
<1>2. PICK z : z = [y EXCEPT !.map[u] = NoAttrs]
  OBVIOUS
<1>3. deleteSurveyInfo(x, u) = z
  BY <1>1, <1>2 DEF deleteSurveyInfo
<1>4. z \in Exports /\ z.map = [x.map EXCEPT ![u] = NoAttrs] /\ z.series = y.series
  BY <1>1, <1>2 DEF Exports
<1>5. z.map[u] = NoAttrs /\ \A v \in UIDs \ {u} : z.map[v] = x.map[v]
  BY <1>4 DEF Exports
<1>6. \A a \in Attrs : a.uid \notin T => z.series[a] = IF z.map[a.uid] = a THEN 1 ELSE 0
  <2> SUFFICES ASSUME NEW a \in Attrs, a.uid \notin T
               PROVE  z.series[a] = IF z.map[a.uid] = a THEN 1 ELSE 0
    OBVIOUS
  <2>1. a.uid \in UIDs /\ a # NoAttrs
    BY AttrsFacts
  <2>2. CASE a.uid = u
    BY <1>1, <1>4, <1>5, <2>1, <2>2
  <2>3. CASE a.uid # u
    BY <1>1, <1>4, <1>5, <2>1, <2>3 DEF Fit
  <2> QED BY <2>2, <2>3
<1>7. ASSUME NEW v \in UIDs, z.map[v] # NoAttrs
      PROVE  z.map[v].uid = v /\ \E a \in Attrs : a.uid = v /\ z.series[a] # 0
  <2>1. v # u /\ x.map[v] = z.map[v]
    BY <1>5, <1>7
  <2>2. PICK a \in Attrs : a.uid = v /\ x.series[a] # 0
    BY <1>7, <2>1 DEF Fit
  <2> QED BY <1>1, <1>4, <1>7, <2>1, <2>2 DEF Fit
<1>8. Fit(z, T)
  BY <1>4, <1>6, <1>7 DEF Fit
<1> QED BY <1>3, <1>5, <1>8

(* y exports attributes a for their UID, and what x exports for the others. *)
Replaces(y, x, a, T) ==
    Fit(y, T) /\ y.map[a.uid] = a /\ \A v \in UIDs \ {a.uid} : y.map[v] = x.map[v]

(* The reporters' two ways to replace the series of a service.             *)
LEMMA OtelFits ==
    ASSUME NEW x \in Exports, Fit(x, {}), NEW a \in Attrs
    PROVE  Replaces(createOtel(deleteSurveyInfo(x, a.uid), a.uid, a), x, a, {})
<1>1. PICK u \in UIDs : u = a.uid
  BY AttrsFacts
<1>2. PICK y : /\ y = deleteSurveyInfo(x, u) /\ Fit(y, {}) /\ y.map[u] = NoAttrs
               /\ \A v \in UIDs \ {u} : y.map[v] = x.map[v]
  BY DeletedFits
<1>3. y \in Exports /\ y.series[a] = 0
  BY <1>1, <1>2, AttrsFacts DEF Fit
<1>4. PICK z : z = [y EXCEPT !.series[a] = @ + 1, !.map[u] = a]
  OBVIOUS
<1>5. createOtel(y, u, a) = z
  BY <1>4 DEF createOtel
<1>6. z \in Exports /\ z.map = [y.map EXCEPT ![u] = a] /\ z.series = [y.series EXCEPT ![a] = 1]
  <2>1. /\ z.map = [y.map EXCEPT ![u] = a]
        /\ z.series = [y.series EXCEPT ![a] = y.series[a] + 1]
        /\ z = [y EXCEPT !.series = z.series, !.map = z.map]
    BY <1>3, <1>4 DEF Exports
  <2>2. z.series = [y.series EXCEPT ![a] = 1]
    BY <1>3, <2>1
  <2>3. z.map \in [UIDs -> Attrs \cup {NoAttrs}] /\ z.series \in [Attrs -> Nat]
    BY <1>3, <2>1, <2>2 DEF Exports
  <2> QED BY <1>3, <2>1, <2>2, <2>3 DEF Exports
<1>7. /\ z.map[u] = a /\ \A v \in UIDs \ {u} : z.map[v] = x.map[v]
      /\ z.series[a] = 1 /\ \A b \in Attrs \ {a} : z.series[b] = y.series[b]
      /\ \A v \in UIDs \ {u} : z.map[v] = y.map[v]
  BY <1>2, <1>3, <1>6 DEF Exports
<1>8. ASSUME NEW v \in UIDs, z.map[v] # NoAttrs
      PROVE  z.map[v].uid = v /\ \E b \in Attrs : b.uid = v /\ z.series[b] # 0
  <2>1. CASE v = u
    BY <1>1, <1>7, <2>1
  <2>2. CASE v # u
    <3>1. PICK b \in Attrs : b.uid = v /\ y.series[b] # 0
      BY <1>2, <1>7, <1>8, <2>2 DEF Fit
    <3> QED BY <1>1, <1>2, <1>7, <1>8, <2>2, <3>1 DEF Fit
  <2> QED BY <2>1, <2>2
<1>9. \A b \in Attrs : z.series[b] = IF z.map[b.uid] = b THEN 1 ELSE 0
  BY <1>1, <1>2, <1>7, AttrsFacts DEF Fit
<1>10. Fit(z, {})
  BY <1>6, <1>8, <1>9 DEF Fit
<1> QED BY <1>1, <1>2, <1>5, <1>7, <1>10 DEF Replaces

(* The Prometheus reporter exports labels b and remembers a.               *)
LEMMA PromFits ==
    ASSUME NEW x \in Exports, NEW T, Fit(x, T), NEW a \in Attrs, NEW b \in Attrs, a.uid = b.uid,
           NEW S, S = IF b = a THEN T ELSE T \cup {a.uid}
    PROVE  Replaces(createProm(Withdraw(x, x.map[a.uid]), a.uid, b, a), x, a, S)
<1>1. PICK u \in UIDs : u = a.uid
  BY AttrsFacts
<1>2. PICK y \in Exports :
        /\ y = Withdraw(x, x.map[u]) /\ y.map = x.map
        /\ \A c \in Attrs : c.uid # u => y.series[c] = x.series[c]
        /\ \A c \in Attrs : c.uid = u /\ u \notin T => y.series[c] = 0
  BY WithdrawFacts
<1>3. PICK z : z = [y EXCEPT !.series[b] = 1, !.map[u] = a]
  OBVIOUS
<1>4. createProm(y, u, b, a) = z
  BY <1>3 DEF createProm
<1>5. z \in Exports /\ z.map = [x.map EXCEPT ![u] = a] /\ z.series = [y.series EXCEPT ![b] = 1]
  BY <1>2, <1>3 DEF Exports
<1>6. /\ z.map[u] = a /\ \A v \in UIDs \ {u} : z.map[v] = x.map[v]
      /\ z.series[b] = 1 /\ \A c \in Attrs \ {b} : z.series[c] = y.series[c]
  BY <1>5 DEF Exports
<1>7. ASSUME NEW v \in UIDs, z.map[v] # NoAttrs
      PROVE  z.map[v].uid = v /\ \E c \in Attrs : c.uid = v /\ z.series[c] # 0
  <2>1. CASE v = u
    BY <1>1, <1>6, <2>1
  <2>2. CASE v # u
    <3>1. PICK c \in Attrs : c.uid = v /\ x.series[c] # 0
      BY <1>6, <1>7, <2>2 DEF Fit
    <3>2. z.series[c] # 0
      BY <1>1, <1>2, <1>6, <2>2, <3>1
    <3> QED BY <1>6, <1>7, <2>2, <3>1, <3>2 DEF Fit
  <2> QED BY <2>1, <2>2
<1>8. ASSUME NEW c \in Attrs, c.uid \notin S
      PROVE  z.series[c] = IF z.map[c.uid] = c THEN 1 ELSE 0
  <2>1. c.uid \notin T /\ c.uid \in UIDs
    BY <1>8, AttrsFacts
  <2>2. CASE c.uid = u
    <3>1. b = a
      BY <1>1, <1>8, <2>2
    <3> QED BY <1>2, <1>6, <2>1, <2>2, <3>1
  <2>3. CASE c.uid # u
    BY <1>1, <1>2, <1>6, <2>1, <2>3 DEF Fit
  <2> QED BY <2>2, <2>3
<1>9. Fit(z, S)
  BY <1>5, <1>7, <1>8 DEF Fit
<1> QED BY <1>1, <1>2, <1>4, <1>6, <1>9 DEF Replaces

-----------------------------------------------------------------------------
(* The reporters, as long as no process changes its UID.                   *)

LEMMA ReporterInit == SurveyInit => ReporterInv
<1> SUFFICES ASSUME SurveyInit PROVE ReporterInv
  OBVIOUS
<1>1. DOMAIN tracker = Reporters /\ DOMAIN serviceMap = Reporters /\ DOMAIN series = Reporters
  BY DEF SurveyInit
<1>2. ASSUME NEW r \in Reporters PROVE TrackInv(r)
  <2>1. tracker[r] = NewPidServiceTracker /\ cur[r] = NoEvent /\ looked[r] = NoAttrs
    BY DEF SurveyInit
  <2>2. NewPidServiceTracker \in Trackers /\ \A p \in PIDs : NewPidServiceTracker.svcOf[p] = NoUID
    BY DEF NewPidServiceTracker, Trackers
  <2>3. Consistent(NewPidServiceTracker)
    BY SurveyAssumption DEF NewPidServiceTracker, Consistent
  <2>4. \A p \in PIDs : ~TracksPID(tracker[r], p) /\ proc[p] = "new"
    BY <2>1, <2>2 DEF TracksPID, SurveyInit
  <2> QED BY <2>1, <2>2, <2>3, <2>4 DEF TrackInv
<1>3. ASSUME NEW r \in Reporters PROVE ExportInv(r)
  <2>1. /\ serviceMap[r] = [u \in UIDs |-> NoAttrs] /\ series[r] = [a \in Attrs |-> 0]
        /\ tracker[r] = NewPidServiceTracker
    BY DEF SurveyInit
  <2>2. /\ Exported(r).map = serviceMap[r] /\ Exported(r).series = series[r]
        /\ Exported(r) \in Exports
    BY <2>1 DEF Exported, Exports
  <2>3. Fit(Exported(r), Torn(r))
    BY <2>1, <2>2, AttrsFacts DEF Fit
  <2>4. \A u \in UIDs : tracker[r].pidsOf[u] = {}
    BY <2>1 DEF NewPidServiceTracker
  <2> QED BY <2>1, <2>3, <2>4 DEF ExportInv
<1> QED BY <1>1, <1>2, <1>3 DEF ReporterInv

(* A reporter is not concerned by a step that changes nothing of its own.  *)
LEMMA ReporterFrame ==
    ASSUME NEW s \in Reporters, TrackInv(s), ExportInv(s), UNCHANGED <<proc, file>>,
           inbox'[s] = inbox[s], cur'[s] = cur[s], looked'[s] = looked[s],
           tracker'[s] = tracker[s], serviceMap'[s] = serviceMap[s], series'[s] = series[s],
           Torn(s)' = Torn(s)
    PROVE  TrackInv(s)' /\ ExportInv(s)'
<1>1. \A t, q : Pending(s, t, q)' <=> Pending(s, t, q)
  BY DEF Pending, Now, Later
<1>2. TrackInv(s)'
  BY <1>1 DEF TrackInv
<1>3. Exported(s)' = Exported(s)
  BY DEF Exported
<1>4. ExportInv(s)'
  <2>1. Fit(Exported(s)', Torn(s)')
    BY <1>3 DEF ExportInv
  <2>2. Fit(Exported(s), Torn(s))'
    BY <2>1 DEF Fit
  <2> QED BY <2>2 DEF ExportInv
<1> QED BY <1>2, <1>4

LEMMA ReporterDiscover ==
    ASSUME SourceIInv, ReporterInv, NEW batch \in Batches, Discover(batch)
    PROVE  ReporterInv'
<1>1. \E n \in 1 .. MaxBatch : batch \in [1 .. n -> {p \in PIDs : proc[p] = "new"}]
  BY DEF Batches
<1>2. /\ UNCHANGED <<file, inbox, cur, looked, tracker, serviceMap, series, torn>>
      /\ proc' = [p \in PIDs |-> IF \E i \in DOMAIN batch : batch[i] = p THEN "found" ELSE proc[p]]
  BY DEF Discover, reporterVars
<1>3. \A p \in PIDs : proc'[p] = "dead" <=> proc[p] = "dead"
  BY <1>1, <1>2
<1>4. \A p \in PIDs : proc'[p] = "found" => proc[p] = "found" \/ file[p].uid = NoUID
  BY <1>1, <1>2 DEF SourceIInv, SourceInv
<1>5. \A r \in Reporters : \A t, q : Pending(r, t, q)' <=> Pending(r, t, q)
  BY <1>2 DEF Pending, Now, Later
<1>6. ASSUME NEW r \in Reporters PROVE TrackInv(r)'
  <2>1. TrackInv(r)
    BY DEF ReporterInv
  <2> QED BY <1>2, <1>3, <1>4, <1>5, <2>1 DEF TrackInv
<1>7. ASSUME NEW r \in Reporters PROVE ExportInv(r)'
  <2>1. ExportInv(r)
    BY DEF ReporterInv
  <2> QED BY <1>2, <2>1 DEF ExportInv, Exported, Fit, Torn
<1> QED BY <1>2, <1>6, <1>7 DEF ReporterInv

(* The UID that a reporter has read or tracks stays that of the process.   *)
LEMMA SendKeepsUID ==
    ASSUME SourceIInv, NEW r \in Reporters, TrackInv(r), UNCHANGED <<cur, tracker>>,
           NEW type \in {"created", "terminated"}, NEW p \in PIDs,
           NEW lang \in {Lang, NoLang}, Send(type, p, lang), ~renamed'
    PROVE  /\ cur[r] # NoEvent => cur[r].uid = file'[cur[r].pid].uid
           /\ \A q \in PIDs : TracksPID(tracker[r], q) => tracker[r].svcOf[q] = file'[q].uid
<1>1. /\ \A q \in PIDs \ {p} : file'[q] = file[q]
      /\ file[p].uid \in {NoUID, file'[p].uid}
  BY SendFacts DEF SourceIInv
<1>2. \A q \in PIDs : file[q].uid # NoUID => file'[q].uid = file[q].uid
  BY <1>1
<1>3. ASSUME cur[r] # NoEvent PROVE cur[r].uid = file'[cur[r].pid].uid
  <2>1. cur[r].pid \in PIDs /\ cur[r].type \in {"created", "terminated"}
    BY <1>3 DEF SourceIInv, SourceType, Handled
  <2>2. Pending(r, cur[r].type, cur[r].pid)
    BY <1>3 DEF Pending, Now
  <2>3. file[cur[r].pid].uid # NoUID
    BY <2>1, <2>2 DEF SourceIInv, SourceInv
  <2> QED BY <1>2, <1>3, <2>1, <2>3 DEF TrackInv
<1>4. ASSUME NEW q \in PIDs, TracksPID(tracker[r], q) PROVE tracker[r].svcOf[q] = file'[q].uid
  BY <1>2, <1>4 DEF TrackInv, TracksPID
<1> QED BY <1>3, <1>4

LEMMA ReporterCreated ==
    ASSUME SourceIInv, ReporterInv, SurveyCreated, ~renamed'
    PROVE  ReporterInv'
<1>1. UNCHANGED <<proc, cur, looked, tracker, serviceMap, series, torn>>
  BY DEF SurveyCreated, reporterVars
<1>2. PICK p \in PIDs : proc[p] = "found" /\ Send("created", p, Lang)
  BY SourceCreated
<1>3. /\ \A q \in PIDs \ {p} : file'[q] = file[q]
      /\ file[p].uid \in {NoUID, file'[p].uid}
  BY <1>2, SendFacts DEF SourceIInv
<1>4. \A r \in Reporters, t \in {"created", "terminated"}, q \in PIDs :
        Pending(r, t, q)' <=> Pending(r, t, q) \/ (t = "created" /\ q = p)
  <2>1. \A r \in Reporters, t \in {"created", "terminated"}, q \in PIDs :
          Later(r, t, q)' <=> Later(r, t, q) \/ (t = "created" /\ q = p)
    BY <1>2, SendPending DEF SourceIInv
  <2> QED BY <1>1, <2>1 DEF Pending, Now
<1>5. ASSUME NEW r \in Reporters PROVE TrackInv(r)'
  <2>1. TrackInv(r)
    BY DEF ReporterInv
  <2>2. /\ cur[r] # NoEvent => cur[r].uid = file'[cur[r].pid].uid
        /\ \A q \in PIDs : TracksPID(tracker[r], q) => tracker[r].svcOf[q] = file'[q].uid
    BY <1>1, <1>2, <2>1, SendKeepsUID
  <2>3. \A q \in PIDs : TracksPID(tracker[r], q) /\ proc[q] = "dead" => Pending(r, "terminated", q)'
    BY <1>4, <2>1 DEF TrackInv
  <2>4. \A q \in PIDs : proc[q] = "found" /\ file'[q].uid # NoUID =>
          TracksPID(tracker[r], q) \/ Pending(r, "created", q)'
    BY <1>3, <1>4, <2>1 DEF TrackInv
  <2> QED BY <1>1, <2>1, <2>2, <2>3, <2>4 DEF TrackInv
<1>6. ASSUME NEW r \in Reporters PROVE ExportInv(r)'
  <2>1. ExportInv(r)
    BY DEF ReporterInv
  <2> QED BY <1>1, <2>1 DEF ExportInv, Exported, Fit, Torn
<1> QED BY <1>1, <1>5, <1>6 DEF ReporterInv

LEMMA ReporterTerminated ==
    ASSUME SourceIInv, ReporterInv, NEW p \in PIDs, SurveyTerminated(p), ~renamed'
    PROVE  ReporterInv'
<1>1. UNCHANGED <<cur, looked, tracker, serviceMap, series, torn>> /\ Send("terminated", p, NoLang)
  BY DEF SurveyTerminated, reporterVars
<1>2. proc'[p] = "dead" /\ \A q \in PIDs \ {p} : proc'[q] = proc[q]
  BY DEF SurveyTerminated, SourceIInv, SourceType
<1>3. \A q \in PIDs \ {p} : file'[q] = file[q]
  BY <1>1, SendFacts DEF SourceIInv
<1>4. \A r \in Reporters, t \in {"created", "terminated"}, q \in PIDs :
        Pending(r, t, q)' <=> Pending(r, t, q) \/ (t = "terminated" /\ q = p)
  <2>1. \A r \in Reporters, t \in {"created", "terminated"}, q \in PIDs :
          Later(r, t, q)' <=> Later(r, t, q) \/ (t = "terminated" /\ q = p)
    BY <1>1, SendPending DEF SourceIInv
  <2> QED BY <1>1, <2>1 DEF Pending, Now
<1>5. ASSUME NEW r \in Reporters PROVE TrackInv(r)'
  <2>1. TrackInv(r)
    BY DEF ReporterInv
  <2>2. /\ cur[r] # NoEvent => cur[r].uid = file'[cur[r].pid].uid
        /\ \A q \in PIDs : TracksPID(tracker[r], q) => tracker[r].svcOf[q] = file'[q].uid
    BY <1>1, <2>1, SendKeepsUID
  <2>3. \A q \in PIDs : TracksPID(tracker[r], q) /\ proc'[q] = "dead" => Pending(r, "terminated", q)'
    BY <1>2, <1>4, <2>1 DEF TrackInv
  <2>4. \A q \in PIDs : proc'[q] = "found" /\ file'[q].uid # NoUID =>
          TracksPID(tracker[r], q) \/ Pending(r, "created", q)'
    BY <1>2, <1>3, <1>4, <2>1 DEF TrackInv
  <2> QED BY <1>1, <2>1, <2>2, <2>3, <2>4 DEF TrackInv
<1>6. ASSUME NEW r \in Reporters PROVE ExportInv(r)'
  <2>1. ExportInv(r)
    BY DEF ReporterInv
  <2> QED BY <1>1, <2>1 DEF ExportInv, Exported, Fit, Torn
<1> QED BY <1>1, <1>5, <1>6 DEF ReporterInv

LEMMA ReporterReceive ==
    ASSUME SourceIInv, ReporterInv, NEW r \in Reporters, Receive(r)
    PROVE  ReporterInv'
<1>1. UNCHANGED <<proc, file, looked, tracker, serviceMap, series, torn>>
  BY DEF Receive, sourceVars
<1>2. /\ cur'[r].pid = inbox[r][1].pid /\ cur'[r].uid = file[inbox[r][1].pid].uid
      /\ \A s \in Reporters, t \in {"created", "terminated"}, q \in PIDs :
           Pending(s, t, q)' <=> Pending(s, t, q)
  BY ReceivePending DEF SourceIInv
<1>3. (\A s \in Reporters \ {r} : cur'[s] = cur[s]) /\ looked[r] = NoAttrs
  BY ReceiveFacts DEF SourceIInv, SourceType
<1>4. ASSUME NEW s \in Reporters PROVE TrackInv(s)'
  <2>1. TrackInv(s)
    BY DEF ReporterInv
  <2>2. cur'[s] # NoEvent => cur'[s].uid = file[cur'[s].pid].uid
    BY <1>2, <1>3, <2>1 DEF TrackInv
  <2>3. looked'[s] # NoAttrs => looked'[s].uid = cur'[s].uid
    BY <1>1, <1>3, <2>1 DEF TrackInv
  <2> QED BY <1>1, <1>2, <2>1, <2>2, <2>3 DEF TrackInv
<1>5. ASSUME NEW s \in Reporters PROVE ExportInv(s)'
  <2>1. ExportInv(s)
    BY DEF ReporterInv
  <2> QED BY <1>1, <2>1 DEF ExportInv, Exported, Fit, Torn
<1> QED BY <1>1, <1>4, <1>5 DEF ReporterInv

LEMMA ReporterLook ==
    ASSUME SourceIInv, ReporterInv, NEW r \in Reporters, Look(r)
    PROVE  ReporterInv'
<1>1. /\ UNCHANGED <<proc, file, inbox, cur, tracker, serviceMap, series, torn>>
      /\ cur[r] # NoEvent /\ looked' = [looked EXCEPT ![r] = file[cur[r].pid]]
  BY DEF Look, sourceVars
<1>2. \A s \in Reporters \ {r} : looked'[s] = looked[s]
  BY <1>1 DEF SourceIInv, SourceType
<1>3. looked'[r].uid = cur[r].uid
  BY <1>1 DEF ReporterInv, TrackInv, SourceIInv, SourceType
<1>4. \A s \in Reporters : \A t, q : Pending(s, t, q)' <=> Pending(s, t, q)
  BY <1>1 DEF Pending, Now, Later
<1>5. ASSUME NEW s \in Reporters PROVE TrackInv(s)'
  <2>1. TrackInv(s)
    BY DEF ReporterInv
  <2>2. looked'[s] # NoAttrs => looked'[s].uid = cur'[s].uid
    BY <1>1, <1>2, <1>3, <2>1 DEF TrackInv
  <2> QED BY <1>1, <1>4, <2>1, <2>2 DEF TrackInv
<1>6. ASSUME NEW s \in Reporters PROVE ExportInv(s)'
  <2>1. ExportInv(s)
    BY DEF ReporterInv
  <2> QED BY <1>1, <2>1 DEF ExportInv, Exported, Fit, Torn
<1> QED BY <1>1, <1>5, <1>6 DEF ReporterInv

(* What Export writes.                                                     *)
LEMMA ExportFacts ==
    ASSUME ReporterInv, NEW r \in Reporters, NEW x \in Exports, Export(r, x)
    PROVE  /\ DOMAIN serviceMap' = Reporters /\ DOMAIN series' = Reporters
           /\ serviceMap'[r] = x.map /\ Exported(r)' = x
           /\ \A s \in Reporters \ {r} : serviceMap'[s] = serviceMap[s] /\ series'[s] = series[s]
<1>1. /\ DOMAIN serviceMap' = Reporters /\ DOMAIN series' = Reporters
      /\ serviceMap'[r] = x.map /\ series'[r] = x.series
      /\ \A s \in Reporters \ {r} : serviceMap'[s] = serviceMap[s] /\ series'[s] = series[s]
  BY DEF Export, ReporterInv
<1>2. x = [map |-> x.map, series |-> x.series]
  BY DEF Exports
<1> QED BY <1>1, <1>2 DEF Exported

(* No UID is stale, and the attributes of the event are those of its       *)
(* process.                                                                *)
LEMMA NotStale ==
    ASSUME SourceIInv, ReporterInv, NEW r \in Reporters,
           NEW type \in {"created", "terminated"}, Handling(r, type)
    PROVE  /\ ~Stale(r)
           /\ cur[r].pid \in PIDs /\ cur[r].uid = file[cur[r].pid].uid
           /\ file[cur[r].pid] \in Attrs
           /\ type = "created" => looked[r] \in Attrs /\ looked[r].uid = cur[r].uid
           /\ tracker[r].svcOf[cur[r].pid] \in {NoUID, cur[r].uid}
<1>1. cur[r] # NoEvent /\ cur[r].pid \in PIDs /\ cur[r].uid \in UIDs
  BY HandlingFacts DEF SourceIInv
<1>2. TrackInv(r)
  BY DEF ReporterInv
<1>3. cur[r].uid = file[cur[r].pid].uid
  BY <1>1, <1>2 DEF TrackInv
<1>4. file[cur[r].pid] \in [uid : UIDs \cup {NoUID}, lang : {Lang, NoLang}]
  BY <1>1 DEF SourceIInv, SourceType
<1>5. file[cur[r].pid] \in Attrs
  BY <1>1, <1>3, <1>4 DEF Attrs
<1>6. tracker[r].svcOf[cur[r].pid] \in {NoUID, cur[r].uid}
  BY <1>1, <1>2, <1>3 DEF TrackInv, TracksPID
<1>7. ~Stale(r)
  BY <1>6 DEF Stale, TracksPID
<1>8. type = "created" => looked[r] \in Attrs /\ looked[r].uid = cur[r].uid
  BY <1>2, HandlingFacts DEF SourceIInv, TrackInv, Handling
<1> QED BY <1>1, <1>3, <1>5, <1>6, <1>7, <1>8

(* A reporter has handled an event of p.  What is left to prove of its     *)
(* invariant is about p itself.                                            *)
LEMMA HandledTracks ==
    ASSUME SourceIInv, ReporterInv, NEW r \in Reporters,
           NEW type \in {"created", "terminated"}, Handling(r, type),
           NEW t \in Trackers, Consistent(t), tracker' = [tracker EXCEPT ![r] = t],
           \A q \in PIDs \ {cur[r].pid} : t.svcOf[q] = tracker[r].svcOf[q],
           TracksPID(t, cur[r].pid) => t.svcOf[cur[r].pid] = file[cur[r].pid].uid,
           TracksPID(t, cur[r].pid) /\ proc[cur[r].pid] = "dead" =>
               Later(r, "terminated", cur[r].pid),
           proc[cur[r].pid] = "found" => TracksPID(t, cur[r].pid)
    PROVE  TrackInv(r)' /\ tracker'[r] = t
<1>1. PICK p \in PIDs : p = cur[r].pid
  BY HandlingFacts DEF SourceIInv
<1>2. /\ cur'[r] = NoEvent /\ looked'[r] = NoAttrs /\ UNCHANGED <<proc, file>>
      /\ \A u \in {"created", "terminated"}, q \in PIDs :
           Pending(r, u, q)' <=> Later(r, u, q)
  <2>1. /\ cur'[r] = NoEvent /\ looked'[r] = NoAttrs /\ UNCHANGED <<proc, file>>
        /\ \A s \in Reporters, u \in {"created", "terminated"}, q \in PIDs :
             /\ Later(s, u, q)' <=> Later(s, u, q)
             /\ Now(s, u, q)' <=> s # r /\ Now(s, u, q)
    BY HandlingFacts DEF SourceIInv
  <2> QED BY <2>1 DEF Pending
<1>3. \A u \in {"created", "terminated"}, q \in PIDs \ {p} :
        Pending(r, u, q) <=> Later(r, u, q)
  BY <1>1 DEF Pending, Now
<1>4. TrackInv(r) /\ tracker'[r] = t
  BY DEF ReporterInv
<1>5. ASSUME NEW q \in PIDs
      PROVE  /\ TracksPID(t, q) => t.svcOf[q] = file[q].uid
             /\ TracksPID(t, q) /\ proc[q] = "dead" => Pending(r, "terminated", q)'
             /\ proc[q] = "found" /\ file[q].uid # NoUID =>
                  TracksPID(t, q) \/ Pending(r, "created", q)'
  <2>1. CASE q = p
    BY <1>1, <1>2, <2>1
  <2>2. CASE q # p
    <3>1. t.svcOf[q] = tracker[r].svcOf[q]
      BY <1>1, <2>2
    <3>2. TracksPID(t, q) <=> TracksPID(tracker[r], q)
      BY <3>1 DEF TracksPID
    <3> QED BY <1>2, <1>3, <1>4, <2>2, <3>1, <3>2 DEF TrackInv
  <2> QED BY <2>1, <2>2
<1> QED BY <1>2, <1>4, <1>5 DEF TrackInv

(* The other reporter.                                                     *)
LEMMA OtherReporter ==
    ASSUME SourceIInv, ReporterInv, NEW r \in Reporters,
           NEW type \in {"created", "terminated"}, Handling(r, type),
           NEW t, tracker' = [tracker EXCEPT ![r] = t],
           NEW x \in Exports, Export(r, x), r = "prom" \/ torn' = torn
    PROVE  /\ DOMAIN tracker' = Reporters
           /\ \A s \in Reporters \ {r} : TrackInv(s)' /\ ExportInv(s)'
<1>1. DOMAIN tracker' = Reporters /\ \A s \in Reporters \ {r} : tracker'[s] = tracker[s]
  BY DEF ReporterInv
<1>2. \A s \in Reporters \ {r} : serviceMap'[s] = serviceMap[s] /\ series'[s] = series[s]
  BY ExportFacts
<1>3. UNCHANGED <<proc, file, inbox>> /\ \A s \in Reporters \ {r} : cur'[s] = cur[s] /\ looked'[s] = looked[s]
  BY HandlingFacts DEF SourceIInv
<1>5. \A s \in Reporters \ {r} : Torn(s)' = Torn(s)
  BY DEF Torn
<1>4. ASSUME NEW s \in Reporters \ {r} PROVE TrackInv(s)' /\ ExportInv(s)'
  <2>1. TrackInv(s) /\ ExportInv(s)
    BY DEF ReporterInv
  <2> QED BY <1>1, <1>2, <1>3, <1>5, <2>1, ReporterFrame
<1> QED BY <1>1, <1>4

(* Both reporters: the process is tracked and its service exported.        *)
LEMMA CreatedKeeps ==
    ASSUME SourceIInv, ReporterInv, NEW r \in Reporters, Handling(r, "created"),
           tracker' = [tracker EXCEPT ![r] = AddPID(@, cur[r].pid, cur[r].uid)],
           NEW a \in Attrs, a.uid = cur[r].uid, r = "prom" \/ torn' = torn,
           NEW x, Replaces(x, Exported(r), a, Torn(r)'), Export(r, x)
    PROVE  ReporterInv'
<1>1. PICK p \in PIDs, u \in UIDs :
        /\ p = cur[r].pid /\ u = cur[r].uid /\ file[p].uid = u /\ u = a.uid
        /\ tracker[r].svcOf[p] \in {NoUID, u}
  BY NotStale, AttrsFacts
<1>2. TrackInv(r) /\ ExportInv(r) /\ tracker[r] \in Trackers /\ Consistent(tracker[r])
  BY DEF ReporterInv, TrackInv
<1>3. PICK t : t = AddPID(tracker[r], p, u)
  OBVIOUS
<1>4. /\ t \in Trackers /\ Consistent(t) /\ t.svcOf[p] = u
      /\ \A q \in PIDs \ {p} : t.svcOf[q] = tracker[r].svcOf[q]
      /\ \A v \in UIDs : t.pidsOf[v] # {} <=> tracker[r].pidsOf[v] # {} \/ v = u
  BY <1>1, <1>2, <1>3, AddPIDFacts
<1>5. tracker' = [tracker EXCEPT ![r] = t]
  BY <1>1, <1>3 DEF ReporterInv
<1>6. TracksPID(t, p)
  BY <1>4, SurveyAssumption DEF TracksPID
<1>7. proc[p] = "dead" => Later(r, "terminated", p)
  <2>1. Now(r, "created", p)
    BY <1>1 DEF Now, Handling
  <2> QED BY <2>1 DEF SourceIInv, OrderInv
<1>8. TrackInv(r)' /\ tracker'[r] = t
  <2>1. /\ \A q \in PIDs \ {cur[r].pid} : t.svcOf[q] = tracker[r].svcOf[q]
        /\ TracksPID(t, cur[r].pid) /\ t.svcOf[cur[r].pid] = file[cur[r].pid].uid
        /\ proc[cur[r].pid] = "dead" => Later(r, "terminated", cur[r].pid)
    BY <1>1, <1>4, <1>6, <1>7
  <2>2. t \in Trackers /\ Consistent(t)
    BY <1>4
  <2> QED BY <1>5, <2>1, <2>2, HandledTracks
<1>9. x \in Exports /\ Fit(x, Torn(r)') /\ x.map[u] = a /\ \A v \in UIDs \ {u} : x.map[v] = Exported(r).map[v]
  BY <1>1 DEF Replaces, Fit
<1>10. /\ DOMAIN serviceMap' = Reporters /\ DOMAIN series' = Reporters
       /\ serviceMap'[r] = x.map /\ Exported(r)' = x
  BY <1>9, ExportFacts
<1>11. ExportInv(r)'
  <2>1. Fit(Exported(r)', Torn(r)')
    BY <1>9, <1>10
  <2>2. Fit(Exported(r), Torn(r))'
    BY <2>1 DEF Fit
  <2>3. \A v \in UIDs : serviceMap[r][v] # NoAttrs <=> tracker[r].pidsOf[v] # {}
    BY <1>2 DEF ExportInv
  <2>4. Exported(r).map = serviceMap[r]
    BY DEF Exported
  <2>5. \A v \in UIDs : serviceMap'[r][v] # NoAttrs <=> tracker'[r].pidsOf[v] # {}
    BY <1>4, <1>8, <1>9, <1>10, <2>3, <2>4, AttrsFacts
  <2> QED BY <2>2, <2>5 DEF ExportInv
<1>12. /\ DOMAIN tracker' = Reporters
       /\ \A s \in Reporters \ {r} : TrackInv(s)' /\ ExportInv(s)'
  BY <1>5, <1>9, OtherReporter
<1> QED BY <1>8, <1>10, <1>11, <1>12 DEF ReporterInv

LEMMA ReporterOtel ==
    ASSUME SourceIInv, ReporterInv, OtelCreated
    PROVE  ReporterInv'
<1>1. PICK r \in Reporters : r = "otel"
  BY DEF Reporters
<1>2. Handling(r, "created") /\ torn' = torn
  BY <1>1 DEF OtelCreated
<1>3. /\ ~Stale(r) /\ cur[r].uid = file[cur[r].pid].uid
      /\ looked[r] \in Attrs /\ looked[r].uid = cur[r].uid
  BY <1>2, NotStale
<1>4. PICK a \in Attrs : a = looked[r] /\ a.uid = cur[r].uid
  BY <1>3
<1>5. /\ tracker' = [tracker EXCEPT ![r] = AddPID(@, cur[r].pid, cur[r].uid)]
      /\ Export(r, createOtel(deleteSurveyInfo(Exported(r), a.uid), a.uid, a))
  BY <1>1, <1>3, <1>4 DEF OtelCreated
<1>6. Torn(r) = {} /\ Torn(r)' = {}
  BY <1>1 DEF Torn
<1>7. Exported(r) \in Exports /\ Fit(Exported(r), {})
  BY <1>6 DEF ReporterInv, ExportInv, Fit
<1>8. Replaces(createOtel(deleteSurveyInfo(Exported(r), a.uid), a.uid, a), Exported(r), a, Torn(r)')
  BY <1>6, <1>7, OtelFits
<1> QED BY <1>2, <1>4, <1>5, <1>8, CreatedKeeps

LEMMA ReporterProm ==
    ASSUME SourceIInv, ReporterInv, PromCreated
    PROVE  ReporterInv'
<1>1. PICK r \in Reporters : r = "prom"
  BY DEF Reporters
<1>2. Handling(r, "created")
  BY <1>1 DEF PromCreated
<1>3. /\ ~Stale(r) /\ cur[r].uid = file[cur[r].pid].uid /\ file[cur[r].pid] \in Attrs
      /\ looked[r] \in Attrs /\ looked[r].uid = cur[r].uid
  BY <1>2, NotStale
<1>4. PICK a \in Attrs, b \in Attrs :
        a = file[cur[r].pid] /\ b = looked[r] /\ a.uid = cur[r].uid /\ b.uid = a.uid
  BY <1>3
<1>5. /\ tracker' = [tracker EXCEPT ![r] = AddPID(@, cur[r].pid, cur[r].uid)]
      /\ Export(r, createProm(Withdraw(Exported(r), serviceMap[r][a.uid]), a.uid, b, a))
      /\ torn' = IF b = a THEN torn ELSE torn \cup {a.uid}
  BY <1>1, <1>3, <1>4 DEF PromCreated
<1>6. /\ Exported(r) \in Exports /\ Fit(Exported(r), Torn(r))
      /\ Exported(r).map = serviceMap[r]
  BY DEF ReporterInv, ExportInv, Fit, Exported
<1>7. PICK S : S = Torn(r)' /\ S = IF b = a THEN Torn(r) ELSE Torn(r) \cup {a.uid}
  BY <1>1, <1>5 DEF Torn
<1>8. Replaces(createProm(Withdraw(Exported(r), Exported(r).map[a.uid]), a.uid, b, a), Exported(r), a, S)
  BY <1>4, <1>6, <1>7, PromFits
<1> QED BY <1>1, <1>2, <1>4, <1>5, <1>6, <1>7, <1>8, CreatedKeeps

(* The series goes with the last process of the service, and only then.    *)
LEMMA ReporterRemoved ==
    ASSUME SourceIInv, ReporterInv, NEW r \in Reporters, Terminated(r)
    PROVE  ReporterInv'
<1>1. Handling(r, "terminated")
  BY DEF Terminated
<1>2. PICK p \in PIDs : p = cur[r].pid
  BY <1>1, NotStale
<1>3. TrackInv(r) /\ ExportInv(r) /\ tracker[r] \in Trackers /\ Consistent(tracker[r])
  BY DEF ReporterInv, TrackInv
<1>4. PICK t : t = RemovePID(tracker[r], p)
  OBVIOUS
<1>5. PICK u : u = tracker[r].svcOf[p]
  OBVIOUS
<1>6. /\ t \in Trackers /\ Consistent(t) /\ t.svcOf[p] = NoUID
      /\ \A q \in PIDs \ {p} : t.svcOf[q] = tracker[r].svcOf[q]
      /\ \A v \in UIDs :
           t.pidsOf[v] # {} <=>
               tracker[r].pidsOf[v] # {} /\ ~(v = u /\ WasLastPID(tracker[r], p))
  BY <1>3, <1>4, <1>5, RemovePIDFacts
<1>7. tracker' = [tracker EXCEPT ![r] = t]
  BY <1>2, <1>4 DEF Terminated, ReporterInv
<1>8. proc[p] = "dead" /\ ~TracksPID(t, p)
  <2>1. Pending(r, "terminated", p)
    BY <1>1, <1>2 DEF Pending, Now, Handling
  <2> QED BY <1>6, <2>1 DEF SourceIInv, OrderInv, TracksPID
<1>9. TrackInv(r)' /\ tracker'[r] = t
  BY <1>1, <1>2, <1>6, <1>7, <1>8, HandledTracks
<1>10. Exported(r) \in Exports /\ Fit(Exported(r), Torn(r)) /\ Exported(r).map = serviceMap[r]
  BY <1>3 DEF ExportInv, Fit, Exported
<1>11. WasLastPID(tracker[r], p) => u \in UIDs /\ serviceMap[r][u] # NoAttrs
  <2> SUFFICES ASSUME WasLastPID(tracker[r], p) PROVE u \in UIDs /\ serviceMap[r][u] # NoAttrs
    OBVIOUS
  <2>1. u \in UIDs /\ tracker[r].pidsOf[u] # {}
    BY <1>3, <1>5 DEF WasLastPID, Trackers
  <2> QED BY <1>3, <2>1 DEF ExportInv
<1>12. PICK x : x = IF WasLastPID(tracker[r], p) THEN deleteSurveyInfo(Exported(r), u)
                    ELSE Exported(r)
  OBVIOUS
<1>13. Export(r, x)
  <2>1. CASE WasLastPID(tracker[r], p)
    BY <1>2, <1>5, <1>11, <1>12, <2>1 DEF Terminated
  <2>2. CASE ~WasLastPID(tracker[r], p)
    BY <1>2, <1>12, <2>2 DEF Terminated
  <2> QED BY <2>1, <2>2
<1>14. /\ Fit(x, Torn(r)) /\ x \in Exports
       /\ \A v \in UIDs : x.map[v] # NoAttrs <=>
            serviceMap[r][v] # NoAttrs /\ ~(v = u /\ WasLastPID(tracker[r], p))
  <2>1. CASE WasLastPID(tracker[r], p)
    <3>1. /\ Fit(x, Torn(r)) /\ x.map[u] = NoAttrs
          /\ \A v \in UIDs \ {u} : x.map[v] = serviceMap[r][v]
      BY <1>10, <1>11, <1>12, <2>1, DeletedFits
    <3> QED BY <2>1, <3>1 DEF Fit
  <2>2. CASE ~WasLastPID(tracker[r], p)
    BY <1>10, <1>12, <2>2
  <2> QED BY <2>1, <2>2
<1>15. /\ DOMAIN serviceMap' = Reporters /\ DOMAIN series' = Reporters
       /\ serviceMap'[r] = x.map /\ Exported(r)' = x
  BY <1>13, <1>14, ExportFacts
<1>18. torn' = torn
  BY DEF Terminated
<1>16. ExportInv(r)'
  <2>1. Fit(Exported(r)', Torn(r)')
    BY <1>14, <1>15, <1>18 DEF Torn
  <2>2. Fit(Exported(r), Torn(r))'
    BY <2>1 DEF Fit
  <2>3. \A v \in UIDs : serviceMap[r][v] # NoAttrs <=> tracker[r].pidsOf[v] # {}
    BY <1>3 DEF ExportInv
  <2>4. \A v \in UIDs : serviceMap'[r][v] # NoAttrs <=> tracker'[r].pidsOf[v] # {}
    BY <1>6, <1>9, <1>14, <1>15, <2>3
  <2> QED BY <2>2, <2>4 DEF ExportInv
<1>17. /\ DOMAIN tracker' = Reporters
       /\ \A s \in Reporters \ {r} : TrackInv(s)' /\ ExportInv(s)'
  BY <1>1, <1>7, <1>13, <1>14, <1>18, OtherReporter
<1> QED BY <1>9, <1>15, <1>16, <1>17 DEF ReporterInv

(* IInv is inductive: a UID that has changed stays on record.              *)
LEMMA InvNext == IInv /\ [SurveyNext]_surveyVars => IInv'
<1> SUFFICES ASSUME IInv, [SurveyNext]_surveyVars PROVE IInv'
  OBVIOUS
<1>1. SourceIInv /\ SourceIInv'
  BY SourceNext DEF IInv, SourceIInv
<1>2. ~renamed' => ~renamed
  BY DEF SurveyNext, surveyVars, sourceVars, MetadataArrives, Discover, SurveyCreated,
         SurveyTerminated, Send, Receive, Look, OtelCreated, PromCreated, Terminated, Handling
<1>3. ASSUME ~renamed', ReporterInv PROVE ReporterInv'
  <2>1. ASSUME UNCHANGED <<proc, file, inbox, cur, looked, tracker, serviceMap, series, torn>>
        PROVE  ReporterInv'
    <3>1. ASSUME NEW r \in Reporters PROVE TrackInv(r)' /\ ExportInv(r)'
      <4>1. TrackInv(r) /\ ExportInv(r)
        BY <1>3 DEF ReporterInv
      <4>2. Torn(r)' = Torn(r)
        BY <2>1 DEF Torn
      <4> QED BY <2>1, <4>1, <4>2, ReporterFrame
    <3> QED BY <1>3, <2>1, <3>1 DEF ReporterInv
  <2>2. ASSUME NEW c \in Containers, MetadataArrives(c) PROVE ReporterInv'
    BY <2>1, <2>2 DEF MetadataArrives, reporterVars
  <2>3. ASSUME NEW batch \in Batches, Discover(batch) PROVE ReporterInv'
    BY <1>1, <1>3, <2>3, ReporterDiscover
  <2>4. ASSUME SurveyCreated PROVE ReporterInv'
    BY <1>1, <1>3, <2>4, ReporterCreated
  <2>5. ASSUME NEW p \in PIDs, SurveyTerminated(p) PROVE ReporterInv'
    BY <1>1, <1>3, <2>5, ReporterTerminated
  <2>6. ASSUME NEW r \in Reporters, Receive(r) PROVE ReporterInv'
    BY <1>1, <1>3, <2>6, ReporterReceive
  <2>11. ASSUME NEW r \in Reporters, Look(r) PROVE ReporterInv'
    BY <1>1, <1>3, <2>11, ReporterLook
  <2>7. ASSUME NEW r \in Reporters, Terminated(r) PROVE ReporterInv'
    BY <1>1, <1>3, <2>7, ReporterRemoved
  <2>8. ASSUME OtelCreated PROVE ReporterInv'
    BY <1>1, <1>3, <2>8, ReporterOtel
  <2>9. ASSUME PromCreated PROVE ReporterInv'
    BY <1>1, <1>3, <2>9, ReporterProm
  <2>10. CASE UNCHANGED surveyVars
    BY <2>1, <2>10 DEF surveyVars, sourceVars, reporterVars
  <2> QED BY <2>2, <2>3, <2>4, <2>5, <2>6, <2>7, <2>8, <2>9, <2>10, <2>11 DEF SurveyNext
<1>4. ~renamed => ReporterInv
  BY DEF IInv
<1>5. ~renamed' => ReporterInv'
  BY <1>2, <1>3, <1>4
<1> QED BY <1>1, <1>5 DEF IInv, SourceIInv

LEMMA InvCorrect == SurveySpec => []IInv
<1>1. SurveyInit => IInv
  BY SourceInit, ReporterInit DEF IInv, SourceIInv
<1> QED BY <1>1, InvNext, PTL DEF SurveySpec

-----------------------------------------------------------------------------
(* What the invariant says of a reporter that has handled its events.      *)

(* It tracks the living processes that were sent, and no other.            *)
LEMMA IdleTracks ==
    ASSUME IInv, ~renamed, NEW r \in Reporters, Idle(r), NEW p \in PIDs
    PROVE  TracksPID(tracker[r], p) <=> proc[p] = "found" /\ file[p].uid # NoUID
<1>1. \A t, q : ~Pending(r, t, q)
  BY DEF Idle, Pending, Now, Later
<1>2. TrackInv(r) /\ tracker[r] \in Trackers
  BY DEF IInv, ReporterInv, TrackInv
<1>3. ASSUME TracksPID(tracker[r], p) PROVE proc[p] = "found" /\ file[p].uid # NoUID
  <2>1. tracker[r].svcOf[p] = file[p].uid /\ file[p].uid # NoUID
    BY <1>2, <1>3 DEF TrackInv, TracksPID
  <2>2. proc[p] # "dead"
    BY <1>1, <1>2, <1>3 DEF TrackInv
  <2>3. proc[p] \in {"new", "found", "dead"} /\ proc[p] # "new"
    BY <2>1 DEF IInv, SourceType, SourceInv
  <2> QED BY <2>1, <2>2, <2>3
<1>4. ASSUME proc[p] = "found", file[p].uid # NoUID PROVE TracksPID(tracker[r], p)
  BY <1>1, <1>2, <1>4 DEF TrackInv
<1> QED BY <1>3, <1>4

(* It has a series of each service of a living process that was sent, and  *)
(* but for those that it read while they changed, only of them and only    *)
(* the one of serviceMap.                                                  *)
LEMMA IdleExports ==
    ASSUME IInv, ~renamed, NEW r \in Reporters, Idle(r), NEW u \in UIDs
    PROVE  /\ (\E p \in PIDs : proc[p] = "found" /\ file[p].uid = u) => SeriesOf(r, u) # {}
           /\ SeriesOf(r, u) # {} /\ ~Leaks(r, u) =>
                /\ \E p \in PIDs : proc[p] = "found" /\ file[p].uid = u
                /\ \E a \in Attrs : series[r][a] = 1 /\ SeriesOf(r, u) = {a}
<1>1. TrackInv(r) /\ ExportInv(r) /\ Consistent(tracker[r])
  BY DEF IInv, ReporterInv, TrackInv
<1>2. /\ series[r] \in [Attrs -> Nat]
      /\ serviceMap[r][u] # NoAttrs => serviceMap[r][u] \in Attrs /\ serviceMap[r][u].uid = u
      /\ serviceMap[r][u] # NoAttrs => \E a \in Attrs : a.uid = u /\ series[r][a] # 0
      /\ \A a \in Attrs : a.uid = u /\ ~Leaks(r, u) =>
           series[r][a] = IF serviceMap[r][u] = a THEN 1 ELSE 0
      /\ serviceMap[r][u] # NoAttrs <=> tracker[r].pidsOf[u] # {}
  <2>1. Exported(r).map = serviceMap[r] /\ Exported(r).series = series[r]
    BY DEF Exported
  <2>2. u \in Torn(r) <=> Leaks(r, u)
    BY DEF Torn, Leaks
  <2> QED BY <1>1, <2>1, <2>2 DEF ExportInv, Fit, Exports
<1>3. ASSUME NEW p \in PIDs, proc[p] = "found", file[p].uid = u PROVE SeriesOf(r, u) # {}
  <2>1. TracksPID(tracker[r], p)
    BY <1>3, IdleTracks, SurveyAssumption
  <2>2. tracker[r].svcOf[p] = u
    BY <1>1, <1>3, <2>1 DEF TrackInv
  <2>3. serviceMap[r][u] # NoAttrs
    BY <1>1, <1>2, <2>2 DEF Consistent
  <2>4. PICK a \in Attrs : a.uid = u /\ series[r][a] # 0
    BY <1>2, <2>3
  <2>5. series[r][a] > 0
    BY <1>2, <2>4
  <2> QED BY <2>4, <2>5 DEF SeriesOf
<1>4. ASSUME SeriesOf(r, u) # {}, ~Leaks(r, u)
      PROVE  /\ \E p \in PIDs : proc[p] = "found" /\ file[p].uid = u
             /\ \E a \in Attrs : series[r][a] = 1 /\ SeriesOf(r, u) = {a}
  <2>1. PICK b \in Attrs : b.uid = u /\ series[r][b] > 0
    BY <1>4 DEF SeriesOf
  <2>2. serviceMap[r][u] = b
    BY <1>2, <1>4, <2>1
  <2>3. series[r][b] = 1 /\ SeriesOf(r, u) = {b}
    BY <1>2, <1>4, <2>1, <2>2 DEF SeriesOf
  <2>4. serviceMap[r][u] # NoAttrs
    BY <2>2, AttrsFacts
  <2>5. PICK p \in PIDs : tracker[r].svcOf[p] = u
    BY <1>1, <1>2, <2>4 DEF Consistent
  <2>6. TracksPID(tracker[r], p)
    BY <2>5, SurveyAssumption DEF TracksPID
  <2>7. proc[p] = "found" /\ file[p].uid = u
    BY <1>1, <2>5, <2>6, IdleTracks DEF TrackInv
  <2> QED BY <2>3, <2>7
<1> QED BY <1>3, <1>4

(* In both PidServiceTrackers pidToService and servicePIDs are each        *)
(* other's inverse, for any processes, process tree and interleaving, as   *)
(* long as no process changes its UID.                                     *)
THEOREM TrackersConsistentCorrect == SurveySpec => []TrackersConsistent
<1>1. IInv => TrackersConsistent
  BY DEF IInv, ReporterInv, TrackInv, TrackersConsistent
<1> QED BY <1>1, InvCorrect, PTL

(* A reporter that has handled its events has exactly one survey_info      *)
(* series, of value 1, for the service of every process that it tracks, as *)
(* long as no process changes its UID: whatever onProcessEvent and         *)
(* handleProcessEvent delete and create again, and however late they read  *)
(* the attributes of an event.  The Prometheus reporter may have more than *)
(* one, but at least one, of a service whose attributes were written       *)
(* between the two times that handleProcessEvent reads them.               *)
THEOREM ExportedUnlessRenamedCorrect == SurveySpec => []ExportedUnlessRenamed
<1>1. ASSUME IInv PROVE ExportedUnlessRenamed
  <2> SUFFICES ASSUME ~renamed, NEW r \in Reporters, Idle(r), NEW p \in PIDs,
                      TracksPID(tracker[r], p)
               PROVE  \/ \E a \in Attrs : series[r][a] = 1 /\ SeriesOf(r, file[p].uid) = {a}
                      \/ Leaks(r, file[p].uid) /\ SeriesOf(r, file[p].uid) # {}
    BY DEF ExportedUnlessRenamed
  <2>1. proc[p] = "found" /\ file[p].uid # NoUID
    BY <1>1, IdleTracks
  <2>2. PICK u \in UIDs : u = file[p].uid
    BY <1>1, <2>1 DEF IInv, SourceType
  <2>3. SeriesOf(r, u) # {}
    BY <1>1, <2>1, <2>2, IdleExports
  <2>4. CASE Leaks(r, u)
    BY <2>2, <2>3, <2>4
  <2>5. CASE ~Leaks(r, u)
    BY <1>1, <2>2, <2>3, <2>5, IdleExports
  <2> QED BY <2>4, <2>5
<1> QED BY <1>1, InvCorrect, PTL

(* A reporter that has handled its events has no series of a service       *)
(* without living processes, as long as no process changes its UID: the    *)
(* end of the last one, and only that, withdraws it.  The only series that *)
(* outlive their service are those of the Prometheus reporter whose        *)
(* attributes were written while it read them.                             *)
THEOREM OnlyLiveExportedCorrect == SurveySpec => []OnlyLiveExported
<1>1. ASSUME IInv PROVE OnlyLiveExported
  <2> SUFFICES ASSUME ~renamed, NEW r \in Reporters, Idle(r), NEW a \in Attrs, series[r][a] > 0
               PROVE  \/ \E p \in PIDs : proc[p] = "found" /\ file[p].uid = a.uid
                      \/ Leaks(r, a.uid)
    BY DEF OnlyLiveExported
  <2>1. PICK u \in UIDs : u = a.uid
    BY AttrsFacts
  <2>2. SeriesOf(r, u) # {}
    BY <2>1 DEF SeriesOf
  <2> QED BY <1>1, <2>1, <2>2, IdleExports
<1> QED BY <1>1, InvCorrect, PTL

(* The OTEL reporter and the Prometheus reporter list the same services    *)
(* once both have handled their events, as long as no process changes its  *)
(* UID, but for those that the Prometheus reporter read while they         *)
(* changed, which it may list when the OTEL reporter does not.             *)
THEOREM ReportersAgreeCorrect == SurveySpec => []ReportersAgree
<1>1. ASSUME IInv PROVE ReportersAgree
  <2> SUFFICES ASSUME ~renamed, \A r \in Reporters : Idle(r)
               PROVE  /\ SurveyedUIDs("otel") \subseteq SurveyedUIDs("prom")
                      /\ \A u \in SurveyedUIDs("prom") \ SurveyedUIDs("otel") : Leaks("prom", u)
    BY DEF ReportersAgree
  <2>1. ASSUME NEW u \in UIDs
        PROVE  /\ SeriesOf("otel", u) # {} => SeriesOf("prom", u) # {}
               /\ SeriesOf("prom", u) # {} /\ ~Leaks("prom", u) => SeriesOf("otel", u) # {}
    <3>1. "otel" \in Reporters /\ "prom" \in Reporters /\ ~Leaks("otel", u)
      BY DEF Reporters, Leaks
    <3> QED BY <1>1, <3>1, IdleExports
  <2> QED BY <2>1 DEF SurveyedUIDs
<1> QED BY <1>1, InvCorrect, PTL

-----------------------------------------------------------------------------
(* The types, whatever happens to the UIDs.  Each process that is found    *)
(* makes one event "created", if maybe for its ancestor, and each such     *)
(* event adds at most 1 to a series: the value of a series, and the events *)
(* that a reporter is still to handle, are at most the processes.          *)

Fresh == {p \in PIDs : proc[p] = "new"}
CreatedIn(r) == {i \in DOMAIN inbox[r] : inbox[r][i].type = "created"}
CreatedNow(r) == IF cur[r] # NoEvent /\ cur[r].type = "created" THEN 1 ELSE 0

(* the events "created" that reporter r may still handle                   *)
Waiting(r) == Cardinality(Fresh) + Len(elfs) + Cardinality(CreatedIn(r)) + CreatedNow(r)

CountInv ==
    /\ cached \subseteq Exes /\ known \subseteq Containers
    /\ DOMAIN tracker = Reporters /\ DOMAIN serviceMap = Reporters /\ DOMAIN series = Reporters
    /\ \A r \in Reporters :
         /\ tracker[r] \in Trackers
         /\ Exported(r) \in Exports
         /\ \A a \in Attrs : series[r][a] + Waiting(r) <= Cardinality(PIDs)

(* Sets that are mapped one to one have the same size.                     *)
LEMMA SameSize ==
    ASSUME NEW S, NEW T, IsFiniteSet(S), NEW f \in [S -> T],
           \A x, y \in S : f[x] = f[y] => x = y, \A y \in T : \E x \in S : f[x] = y
    PROVE  IsFiniteSet(T) /\ Cardinality(T) = Cardinality(S)
<1>1. f \in Injection(S, T) /\ f \in Surjection(S, T)
  BY Fun_IsInj, Fun_IsSurj
<1>2. ExistsBijection(S, T)
  BY <1>1 DEF ExistsBijection, Bijection
<1> QED BY <1>2, FS_Bijection

(* The parts of Waiting are numbers.                                       *)
LEMMA WaitingFinite ==
    ASSUME SourceType, NEW r \in Reporters
    PROVE  /\ IsFiniteSet(Fresh) /\ Cardinality(Fresh) \in Nat
           /\ Len(elfs) \in Nat
           /\ IsFiniteSet(CreatedIn(r)) /\ Cardinality(CreatedIn(r)) \in Nat
           /\ CreatedNow(r) \in {0, 1}
           /\ Waiting(r) \in Nat
<1>1. IsFiniteSet(Fresh) /\ Cardinality(Fresh) \in Nat
  BY SurveyAssumption, FS_Subset, FS_CardinalityType DEF Fresh
<1>2. Len(elfs) \in Nat
  BY DEF SourceType
<1>3. IsFiniteSet(CreatedIn(r)) /\ Cardinality(CreatedIn(r)) \in Nat
  <2>1. PICK n \in Nat : DOMAIN inbox[r] = 1 .. n
    BY DEF SourceType
  <2>2. IsFiniteSet(1 .. n)
    BY FS_Interval
  <2>3. CreatedIn(r) \in SUBSET (1 .. n)
    BY <2>1 DEF CreatedIn
  <2> QED BY <2>2, <2>3, FS_Subset, FS_CardinalityType
<1>4. CreatedNow(r) \in {0, 1}
  BY DEF CreatedNow
<1> QED BY <1>1, <1>2, <1>3, <1>4 DEF Waiting

(* A process that is found moves from those that are new to the batch.     *)
LEMMA WaitingDiscover ==
    ASSUME SourceType, NEW batch \in Batches, Discover(batch), NEW r \in Reporters
    PROVE  Waiting(r)' = Waiting(r)
<1>1. PICK n \in 1 .. MaxBatch : batch \in [1 .. n -> Fresh]
  BY DEF Batches, Fresh
<1>2. n \in Nat /\ DOMAIN batch = 1 .. n
  BY <1>1, SurveyAssumption
<1>3. DEFINE T == {batch[i] : i \in 1 .. n}
<1>4. batch \in [1 .. n -> T] /\ (\A y \in T : \E x \in 1 .. n : batch[x] = y)
  BY <1>1
<1>5. \A x, y \in 1 .. n : batch[x] = batch[y] => x = y
  BY <1>2 DEF Discover
<1>6. T \subseteq Fresh
  BY <1>1
<1>7. Fresh' = Fresh \ T
  <2>1. proc' = [p \in PIDs |-> IF \E i \in DOMAIN batch : batch[i] = p THEN "found" ELSE proc[p]]
    BY DEF Discover
  <2> QED BY <1>2, <2>1 DEF Fresh
<1> HIDE DEF T
<1>8. IsFiniteSet(1 .. n) /\ Cardinality(1 .. n) = n
  BY <1>2, FS_Interval
<1>9. IsFiniteSet(T) /\ Cardinality(T) = n
  <2>1. PICK S : S = 1 .. n
    OBVIOUS
  <2>2. IsFiniteSet(S) /\ batch \in [S -> T]
    BY <1>4, <1>8, <2>1
  <2>3. (\A x, y \in S : batch[x] = batch[y] => x = y) /\ (\A y \in T : \E x \in S : batch[x] = y)
    BY <1>4, <1>5, <2>1
  <2>4. IsFiniteSet(T) /\ Cardinality(T) = Cardinality(S)
    BY <2>2, <2>3, SameSize
  <2> QED BY <1>8, <2>1, <2>4
<1>10. IsFiniteSet(Fresh) /\ Cardinality(Fresh) \in Nat
  BY WaitingFinite
<1>11. Cardinality(Fresh \ T) = Cardinality(Fresh) - n
  <2>1. Fresh \cap T = T
    BY <1>6
  <2> QED BY <1>9, <1>10, <2>1, FS_Difference
<1>12. Len(elfs) = 0 /\ Len(elfs') = n
  <2>1. elfs = <<>> /\ elfs' = batch
    BY DEF Discover
  <2>2. Len(batch) = n
    BY <1>1, <1>2
  <2> QED BY <2>1, <2>2
<1>13. CreatedIn(r)' = CreatedIn(r) /\ CreatedNow(r)' = CreatedNow(r)
  BY DEF Discover, reporterVars, CreatedIn, CreatedNow
<1>14. Cardinality(CreatedIn(r)) \in Nat /\ CreatedNow(r) \in {0, 1}
  BY WaitingFinite
<1>15. Cardinality(Fresh') = Cardinality(Fresh) - n
  BY <1>7, <1>11
<1> QED BY <1>2, <1>10, <1>12, <1>13, <1>14, <1>15 DEF Waiting

(* The events in the channel after Send.                                   *)
LEMMA SendCount ==
    ASSUME SourceType, NEW type \in {"created", "terminated"}, NEW p \in PIDs,
           NEW lang \in {Lang, NoLang}, Send(type, p, lang), NEW r \in Reporters
    PROVE  Cardinality(CreatedIn(r)') =
             Cardinality(CreatedIn(r)) + (IF type = "created" THEN 1 ELSE 0)
<1>1. /\ Len(inbox[r]) \in Nat /\ DOMAIN inbox[r] = 1 .. Len(inbox[r])
      /\ DOMAIN inbox'[r] = 1 .. (Len(inbox[r]) + 1)
      /\ \A i \in DOMAIN inbox[r] : inbox'[r][i] = inbox[r][i]
      /\ inbox'[r][Len(inbox[r]) + 1] = [type |-> type, pid |-> p]
  BY SendFacts
<1>2. PICK n : n = Len(inbox[r]) + 1
  OBVIOUS
<1>3. DOMAIN inbox'[r] = DOMAIN inbox[r] \cup {n} /\ n \notin DOMAIN inbox[r]
  BY <1>1, <1>2
<1>4. inbox'[r][n].type = type
  BY <1>1, <1>2
<1>5. CreatedIn(r)' = CreatedIn(r) \cup (IF type = "created" THEN {n} ELSE {})
  BY <1>1, <1>3, <1>4 DEF CreatedIn
<1>6. n \notin CreatedIn(r)
  BY <1>3 DEF CreatedIn
<1>7. IsFiniteSet(CreatedIn(r)) /\ Cardinality(CreatedIn(r)) \in Nat
  BY WaitingFinite
<1>8. CASE type = "created"
  <2>1. CreatedIn(r)' = CreatedIn(r) \cup {n}
    BY <1>5, <1>8
  <2>2. Cardinality(CreatedIn(r) \cup {n}) = Cardinality(CreatedIn(r)) + 1
    BY <1>6, <1>7, FS_AddElement
  <2> QED BY <1>8, <2>1, <2>2
<1>9. CASE type # "created"
  <2>1. CreatedIn(r)' = CreatedIn(r)
    BY <1>5, <1>9
  <2> QED BY <1>7, <1>9, <2>1
<1> QED BY <1>8, <1>9

(* A process of the batch makes one event.                                 *)
LEMMA WaitingCreated ==
    ASSUME SourceIInv, SurveyCreated, NEW r \in Reporters
    PROVE  Waiting(r)' = Waiting(r)
<1>1. SourceType
  BY DEF SourceIInv
<1>2. PICK p \in PIDs : Send("created", p, Lang)
  BY SourceCreated
<1>3. Cardinality(CreatedIn(r)') = Cardinality(CreatedIn(r)) + 1
  BY <1>1, <1>2, SendCount
<1>4. elfs \in Seq(PIDs) /\ elfs # <<>> /\ elfs' = Tail(elfs) /\ UNCHANGED <<proc, cur>>
  BY <1>1 DEF SurveyCreated, SourceType, reporterVars
<1>5. Len(elfs') = Len(elfs) - 1
  BY <1>4
<1>6. Fresh' = Fresh /\ CreatedNow(r)' = CreatedNow(r)
  BY <1>4 DEF Fresh, CreatedNow
<1>7. /\ Cardinality(Fresh) \in Nat /\ Len(elfs) \in Nat
      /\ Cardinality(CreatedIn(r)) \in Nat /\ CreatedNow(r) \in {0, 1}
  BY <1>1, WaitingFinite
<1> QED BY <1>3, <1>5, <1>6, <1>7 DEF Waiting

LEMMA WaitingTerminated ==
    ASSUME SourceType, NEW p \in PIDs, SurveyTerminated(p), NEW r \in Reporters
    PROVE  Waiting(r)' = Waiting(r)
<1>1. /\ proc[p] = "found" /\ proc' = [proc EXCEPT ![p] = "dead"] /\ UNCHANGED <<elfs, cur>>
      /\ Send("terminated", p, NoLang)
  BY DEF SurveyTerminated, reporterVars
<1>2. Cardinality(CreatedIn(r)') = Cardinality(CreatedIn(r))
  <2>1. Cardinality(CreatedIn(r)') = Cardinality(CreatedIn(r)) + 0
    BY <1>1, SendCount
  <2> QED BY <2>1, WaitingFinite
<1>3. Fresh' = Fresh
  BY <1>1 DEF Fresh, SourceType
<1>4. CreatedNow(r)' = CreatedNow(r)
  BY <1>1 DEF CreatedNow
<1> QED BY <1>1, <1>2, <1>3, <1>4 DEF Waiting

(* The first event of the channel is taken up.                             *)
LEMMA WaitingReceive ==
    ASSUME SourceIInv, NEW s \in Reporters, Receive(s), NEW r \in Reporters
    PROVE  Waiting(r)' = Waiting(r)
<1>1. SourceType /\ SourceInv
  BY DEF SourceIInv
<1>2. UNCHANGED <<proc, elfs>>
  BY DEF Receive, sourceVars
<1>3. Fresh' = Fresh
  BY <1>2 DEF Fresh
<1>4. CASE r # s
  <2>1. inbox'[r] = inbox[r] /\ cur'[r] = cur[r]
    BY <1>1, <1>4, ReceiveFacts
  <2>2. CreatedIn(r)' = CreatedIn(r) /\ CreatedNow(r)' = CreatedNow(r)
    BY <2>1 DEF CreatedIn, CreatedNow
  <2> QED BY <1>2, <1>3, <2>2 DEF Waiting
<1>5. CASE r = s
  <2>1. PICK n \in Nat : n = Len(inbox[r]) /\ 1 <= n
    BY <1>1, <1>5, ReceiveFacts
  <2>2. /\ cur[r] = NoEvent /\ DOMAIN inbox[r] = 1 .. n
        /\ DOMAIN inbox'[r] = 1 .. (n - 1)
        /\ \A i \in 1 .. (n - 1) : inbox'[r][i] = inbox[r][i + 1]
    BY <1>1, <1>5, <2>1, ReceiveFacts
  <2>3. cur'[r] # NoEvent /\ cur'[r].type = inbox[r][1].type
    BY <1>1, <1>5, ReceivePending
  <2>4. PICK C : C = CreatedIn(r) /\ IsFiniteSet(C) /\ Cardinality(C) \in Nat
    BY <1>1, WaitingFinite
  <2>5. PICK D : D = CreatedIn(r)'
    OBVIOUS
  <2>6. /\ C \subseteq 1 .. n /\ \A i \in 1 .. n : i \in C <=> inbox[r][i].type = "created"
        /\ D \subseteq 1 .. (n - 1) /\ \A i \in 1 .. (n - 1) : i \in D <=> i + 1 \in C
    <3>1. C \subseteq 1 .. n /\ \A i \in 1 .. n : i \in C <=> inbox[r][i].type = "created"
      BY <2>2, <2>4 DEF CreatedIn
    <3>2. /\ D \subseteq 1 .. (n - 1)
          /\ \A i \in 1 .. (n - 1) : i \in D <=> inbox'[r][i].type = "created"
      BY <2>2, <2>5 DEF CreatedIn
    <3> QED BY <2>2, <3>1, <3>2
  <2>7. PICK S : S = C \ {1}
    OBVIOUS
  <2>8. IsFiniteSet(S) /\ Cardinality(S) = IF 1 \in C THEN Cardinality(C) - 1 ELSE Cardinality(C)
    BY <2>4, <2>7, FS_RemoveElement
  <2>9. Cardinality(D) = Cardinality(S)
    <3>1. PICK f : f = [i \in S |-> i - 1]
      OBVIOUS
    <3>2. f \in [S -> D]
      BY <2>1, <2>6, <2>7, <3>1
    <3>3. \A x, y \in S : f[x] = f[y] => x = y
      BY <2>6, <2>7, <3>1
    <3>4. \A y \in D : \E x \in S : f[x] = y
      <4> SUFFICES ASSUME NEW y \in D PROVE \E x \in S : f[x] = y
        OBVIOUS
      <4>1. y \in 1 .. (n - 1) /\ y + 1 \in S /\ (y + 1) - 1 = y
        BY <2>6, <2>7
      <4> QED BY <3>1, <4>1
    <3> QED BY <2>8, <3>2, <3>3, <3>4, SameSize
  <2>10. CreatedNow(r) = 0 /\ CreatedNow(r)' = IF 1 \in C THEN 1 ELSE 0
    <3>1. 1 \in C <=> inbox[r][1].type = "created"
      BY <2>1, <2>6
    <3> QED BY <2>2, <2>3, <3>1 DEF CreatedNow
  <2>11. Cardinality(CreatedIn(r)') + CreatedNow(r)' = Cardinality(CreatedIn(r)) + CreatedNow(r)
    BY <2>4, <2>5, <2>8, <2>9, <2>10
  <2>12. Cardinality(Fresh) \in Nat /\ Len(elfs) \in Nat
    BY <1>1, WaitingFinite
  <2>13. Cardinality(CreatedIn(r)') \in Nat /\ CreatedNow(r)' \in Nat
    BY <2>4, <2>5, <2>6, <2>8, <2>9, <2>10, FS_CardinalityType
  <2> QED BY <1>2, <1>3, <2>4, <2>10, <2>11, <2>12, <2>13 DEF Waiting
<1> QED BY <1>4, <1>5

(* A reporter has handled an event.                                        *)
LEMMA WaitingHandling ==
    ASSUME SourceType, NEW s \in Reporters, NEW type \in {"created", "terminated"},
           Handling(s, type), NEW r \in Reporters
    PROVE  Waiting(r)' = Waiting(r) - (IF r = s /\ type = "created" THEN 1 ELSE 0)
<1>1. /\ cur[s] # NoEvent /\ cur[s].type = type /\ cur'[s] = NoEvent
      /\ \A q \in Reporters \ {s} : cur'[q] = cur[q]
      /\ UNCHANGED <<proc, elfs, inbox>>
  BY HandlingFacts
<1>2. Fresh' = Fresh /\ CreatedIn(r)' = CreatedIn(r)
  BY <1>1 DEF Fresh, CreatedIn
<1>3. CreatedNow(r)' = CreatedNow(r) - (IF r = s /\ type = "created" THEN 1 ELSE 0)
  <2>1. CASE r = s
    BY <1>1, <2>1 DEF CreatedNow
  <2>2. CASE r # s
    <3>1. CreatedNow(r)' = CreatedNow(r) /\ CreatedNow(r) \in {0, 1}
      BY <1>1, <2>2 DEF CreatedNow
    <3> QED BY <2>2, <3>1
  <2> QED BY <2>1, <2>2
<1>4. /\ Cardinality(Fresh) \in Nat /\ Len(elfs) \in Nat
      /\ Cardinality(CreatedIn(r)) \in Nat /\ CreatedNow(r) \in {0, 1}
  BY WaitingFinite
<1> QED BY <1>1, <1>2, <1>3, <1>4 DEF Waiting

(* y is what a reporter exports after x, with series that are greater by n *)
(* at most.                                                                *)
Grows(y, x, n) ==
    y \in Exports /\ \A a \in Attrs : y.series[a] <= x.series[a] + n

LEMMA WithdrawGrows ==
    ASSUME NEW x \in Exports, NEW a \in Attrs \cup {NoAttrs}
    PROVE  Grows(Withdraw(x, a), x, 0) /\ Withdraw(x, a).map = x.map
<1>1. \A b \in Attrs : x.series[b] \in Nat
  BY DEF Exports
<1>2. CASE a = NoAttrs
  BY <1>1, <1>2 DEF Withdraw, Grows
<1>3. CASE a # NoAttrs
  <2>1. PICK y : y = [x EXCEPT !.series[a] = 0]
    OBVIOUS
  <2>2. Withdraw(x, a) = y
    BY <1>3, <2>1 DEF Withdraw
  <2>3. y \in Exports /\ y.map = x.map /\ y.series = [x.series EXCEPT ![a] = 0]
    BY <1>3, <2>1 DEF Exports
  <2>4. \A b \in Attrs : y.series[b] <= x.series[b] + 0
    BY <1>1, <2>3 DEF Exports
  <2> QED BY <2>2, <2>3, <2>4 DEF Grows
<1> QED BY <1>2, <1>3

LEMMA DeleteGrows ==
    ASSUME NEW x \in Exports, NEW u \in UIDs
    PROVE  Grows(deleteSurveyInfo(x, u), x, 0)
<1>1. PICK a \in Attrs \cup {NoAttrs} : a = x.map[u]
  BY DEF Exports
<1>2. PICK y : y = Withdraw(x, a) /\ Grows(y, x, 0)
  BY WithdrawGrows
<1>3. PICK z : z = [y EXCEPT !.map[u] = NoAttrs]
  OBVIOUS
<1>4. deleteSurveyInfo(x, u) = z
  BY <1>1, <1>2, <1>3 DEF deleteSurveyInfo
<1>5. z \in Exports /\ z.series = y.series
  BY <1>2, <1>3 DEF Grows, Exports
<1> QED BY <1>2, <1>4, <1>5 DEF Grows

LEMMA CreateGrows ==
    ASSUME NEW x \in Exports, NEW y, Grows(y, x, 0), NEW u \in UIDs,
           NEW a \in Attrs, NEW l \in Attrs
    PROVE  /\ Grows(createOtel(y, u, a), x, 1)
           /\ Grows(createProm(y, u, l, a), x, 1)
<1>1. y \in Exports /\ \A b \in Attrs : y.series[b] <= x.series[b] /\ y.series[b] \in Nat /\ x.series[b] \in Nat
  BY DEF Grows, Exports
<1>3. Grows(createOtel(y, u, a), x, 1)
  <2>1. PICK z : z = [y EXCEPT !.series[a] = @ + 1, !.map[u] = a]
    OBVIOUS
  <2>2. createOtel(y, u, a) = z
    BY <2>1 DEF createOtel
  <2>3. /\ z.map = [y.map EXCEPT ![u] = a]
        /\ z.series = [y.series EXCEPT ![a] = y.series[a] + 1]
        /\ z = [y EXCEPT !.series = z.series, !.map = z.map]
    BY <1>1, <2>1 DEF Exports
  <2>4. z.map \in [UIDs -> Attrs \cup {NoAttrs}] /\ z.series \in [Attrs -> Nat]
    BY <1>1, <2>3 DEF Exports
  <2>5. z \in Exports
    BY <1>1, <2>3, <2>4 DEF Exports
  <2>6. \A b \in Attrs : z.series[b] <= x.series[b] + 1
    BY <1>1, <2>3 DEF Exports
  <2> QED BY <2>2, <2>5, <2>6 DEF Grows
<1>4. Grows(createProm(y, u, l, a), x, 1)
  <2>1. PICK z : z = [y EXCEPT !.series[l] = 1, !.map[u] = a]
    OBVIOUS
  <2>2. createProm(y, u, l, a) = z
    BY <2>1 DEF createProm
  <2>3. /\ z \in Exports /\ z.series = [y.series EXCEPT ![l] = 1]
    BY <1>1, <2>1 DEF Exports
  <2>4. \A b \in Attrs : z.series[b] <= x.series[b] + 1
    BY <1>1, <2>3 DEF Exports
  <2> QED BY <2>2, <2>3, <2>4 DEF Grows
<1> QED BY <1>3, <1>4

(* The operations of a tracker keep its type.                              *)
LEMMA TrackerTypes ==
    ASSUME NEW t \in Trackers, NEW p \in PIDs, NEW u \in UIDs, NEW v \in UIDs
    PROVE  AddPID(t, p, u) \in Trackers /\ RemovePID(t, p) \in Trackers /\ ReplaceUID(t, v, u) \in Trackers
<1>1. t.svcOf \in [PIDs -> UIDs \cup {NoUID}] /\ t.pidsOf \in [UIDs -> SUBSET PIDs]
  BY DEF Trackers
<1>2. AddPID(t, p, u) \in Trackers
  <2>1. [t.svcOf EXCEPT ![p] = u] \in [PIDs -> UIDs \cup {NoUID}]
    BY <1>1
  <2>2. [t.pidsOf EXCEPT ![u] = @ \cup {p}] \in [UIDs -> SUBSET PIDs]
    BY <1>1
  <2> QED BY <2>1, <2>2 DEF AddPID, Trackers
<1>3. RemovePID(t, p) \in Trackers
  <2>1. [t.svcOf EXCEPT ![p] = NoUID] \in [PIDs -> UIDs \cup {NoUID}]
    BY <1>1
  <2>2. [w \in UIDs |-> IF w = t.svcOf[p] THEN t.pidsOf[w] \ {p} ELSE t.pidsOf[w]] \in [UIDs -> SUBSET PIDs]
    BY <1>1
  <2> QED BY <2>1, <2>2 DEF RemovePID, Trackers
<1>4. ReplaceUID(t, v, u) \in Trackers
  <2>1. [q \in PIDs |-> IF q \in t.pidsOf[v] THEN u ELSE t.svcOf[q]] \in [PIDs -> UIDs \cup {NoUID}]
    BY <1>1
  <2>2. [t.pidsOf EXCEPT ![u] = t.pidsOf[v], ![v] = {}] \in [UIDs -> SUBSET PIDs]
    BY <1>1
  <2> QED BY <2>1, <2>2 DEF ReplaceUID, Trackers
<1> QED BY <1>2, <1>3, <1>4

(* Steps that leave the reporters alone.                                   *)
LEMMA CountFrame ==
    ASSUME CountInv, cached' \subseteq Exes, known' \subseteq Containers,
           UNCHANGED <<tracker, serviceMap, series>>, \A r \in Reporters : Waiting(r)' = Waiting(r)
    PROVE  CountInv'
<1>1. \A r \in Reporters : Exported(r)' = Exported(r)
  BY DEF Exported
<1>2. ASSUME NEW r \in Reporters
      PROVE  /\ tracker'[r] \in Trackers /\ Exported(r)' \in Exports
             /\ \A a \in Attrs : series'[r][a] + Waiting(r)' <= Cardinality(PIDs)
  BY <1>1 DEF CountInv
<1> QED BY <1>2 DEF CountInv, Exports, Trackers

(* Steps of a reporter.                                                    *)
LEMMA CountStep ==
    ASSUME SourceType, CountInv, NEW s \in Reporters, NEW type \in {"created", "terminated"},
           Handling(s, type), NEW t \in Trackers, tracker' = [tracker EXCEPT ![s] = t],
           NEW x, Export(s, x),
           Grows(x, Exported(s), IF type = "created" THEN 1 ELSE 0)
    PROVE  CountInv'
<1>1. \A r \in Reporters :
        Waiting(r)' = Waiting(r) - (IF r = s /\ type = "created" THEN 1 ELSE 0)
  BY WaitingHandling
<1>2. cached' = cached /\ known' = known
  BY DEF Handling, sourceVars
<1>3. /\ DOMAIN tracker' = Reporters /\ tracker'[s] = t
      /\ \A r \in Reporters \ {s} : tracker'[r] = tracker[r]
  BY DEF CountInv
<1>4. /\ DOMAIN serviceMap' = Reporters /\ DOMAIN series' = Reporters
      /\ serviceMap'[s] = x.map /\ series'[s] = x.series
      /\ \A r \in Reporters \ {s} : serviceMap'[r] = serviceMap[r] /\ series'[r] = series[r]
  BY DEF Export, CountInv
<1>5. Exported(s)' \in Exports
  <2>1. x = [map |-> x.map, series |-> x.series] /\ x \in Exports
    BY DEF Grows, Exports
  <2>2. Exported(s)' = x
    BY <1>4, <2>1 DEF Exported
  <2> QED BY <2>1, <2>2
<1>6. ASSUME NEW a \in Attrs PROVE series'[s][a] + Waiting(s)' <= Cardinality(PIDs)
  <2>1. Exported(s).series = series[s]
    BY DEF Exported
  <2>2. /\ x.series[a] \in Nat /\ series[s][a] \in Nat
        /\ x.series[a] <= series[s][a] + (IF type = "created" THEN 1 ELSE 0)
    BY <1>6, <2>1 DEF Grows, Exports, CountInv
  <2>3. series[s][a] + Waiting(s) <= Cardinality(PIDs)
    BY <1>6 DEF CountInv
  <2>4. Waiting(s) \in Nat /\ Cardinality(PIDs) \in Nat
    BY WaitingFinite, SurveyAssumption, FS_CardinalityType
  <2>5. Waiting(s)' = Waiting(s) - (IF type = "created" THEN 1 ELSE 0)
    BY <1>1
  <2>6. series'[s][a] = x.series[a]
    BY <1>4
  <2> QED BY <2>2, <2>3, <2>4, <2>5, <2>6
<1>7. ASSUME NEW r \in Reporters \ {s}
      PROVE  /\ tracker'[r] \in Trackers /\ Exported(r)' \in Exports
             /\ \A a \in Attrs : series'[r][a] + Waiting(r)' <= Cardinality(PIDs)
  <2>1. Waiting(r)' = Waiting(r)
    BY <1>1, WaitingFinite
  <2>2. Exported(r)' = Exported(r)
    BY <1>4, <1>7 DEF Exported
  <2> QED BY <1>3, <1>4, <1>7, <2>1, <2>2 DEF CountInv
<1> QED BY <1>2, <1>3, <1>4, <1>5, <1>6, <1>7 DEF CountInv, Exports, Trackers

LEMMA CountOtel ==
    ASSUME SourceIInv, CountInv, OtelCreated
    PROVE  CountInv'
<1>1. PICK r \in Reporters : r = "otel"
  BY DEF Reporters
<1>2. Handling(r, "created")
  BY <1>1 DEF OtelCreated
<1>3. PICK p \in PIDs, u \in UIDs, w \in UIDs, a \in Attrs :
        p = cur[r].pid /\ u = cur[r].uid /\ w = file[p].uid /\ a = looked[r]
  <2>1. /\ cur[r].pid \in PIDs /\ cur[r].uid \in UIDs /\ file[cur[r].pid] \in Attrs
        /\ looked[r] \in Attrs
    BY <1>2, EventAttrs, HandlingFacts DEF SourceIInv, Handling
  <2> QED BY <2>1, AttrsFacts
<1>4. PICK x \in Exports : x = Exported(r)
  BY DEF CountInv
<1>5. tracker[r] \in Trackers
  BY DEF CountInv
<1>6. CASE Stale(r)
  <2>1. PICK v \in UIDs : v = tracker[r].svcOf[p]
    BY <1>3, <1>5, <1>6 DEF Stale, TracksPID, Trackers
  <2>2. PICK t \in Trackers : t = ReplaceUID(tracker[r], v, u)
    BY <1>5, TrackerTypes
  <2>3. PICK y : y = deleteSurveyInfo(x, v) /\ Grows(y, x, 0)
    BY DeleteGrows
  <2>4. PICK z : z = createOtel(y, w, a) /\ Grows(z, x, 1)
    BY <1>5, <2>3, CreateGrows
  <2>5. tracker' = [tracker EXCEPT ![r] = t] /\ Export(r, z)
    BY <1>1, <1>3, <1>4, <1>6, <2>1, <2>2, <2>3, <2>4 DEF OtelCreated, CountInv
  <2> QED BY <1>2, <1>4, <2>4, <2>5, CountStep DEF SourceIInv
<1>7. CASE ~Stale(r)
  <2>2. PICK t \in Trackers : t = AddPID(tracker[r], p, w)
    BY <1>5, TrackerTypes
  <2>3. PICK y : y = deleteSurveyInfo(x, u) /\ Grows(y, x, 0)
    BY DeleteGrows
  <2>4. PICK z : z = createOtel(y, w, a) /\ Grows(z, x, 1)
    BY <1>5, <2>3, CreateGrows
  <2>5. tracker' = [tracker EXCEPT ![r] = t] /\ Export(r, z)
    BY <1>1, <1>3, <1>4, <1>7, <2>2, <2>3, <2>4 DEF OtelCreated, CountInv
  <2> QED BY <1>2, <1>4, <2>4, <2>5, CountStep DEF SourceIInv
<1> QED BY <1>6, <1>7

LEMMA CountProm ==
    ASSUME SourceIInv, CountInv, PromCreated
    PROVE  CountInv'
<1>1. PICK r \in Reporters : r = "prom"
  BY DEF Reporters
<1>2. Handling(r, "created")
  BY <1>1 DEF PromCreated
<1>3. PICK p \in PIDs, u \in UIDs, a \in Attrs, l \in Attrs :
        p = cur[r].pid /\ u = cur[r].uid /\ a = file[p] /\ l = looked[r]
  BY <1>2, EventAttrs, HandlingFacts DEF SourceIInv, Handling
<1>4. PICK x \in Exports : x = Exported(r) /\ x.map = serviceMap[r]
  BY DEF CountInv, Exported
<1>5. tracker[r] \in Trackers
  BY DEF CountInv
<1>6. CASE Stale(r)
  <2>1. PICK v \in UIDs : v = tracker[r].svcOf[p]
    BY <1>3, <1>5, <1>6 DEF Stale, TracksPID, Trackers
  <2>2. PICK t \in Trackers : t = ReplaceUID(tracker[r], v, u)
    BY <1>5, TrackerTypes
  <2>3. PICK y : y = deleteSurveyInfo(x, v) /\ Grows(y, x, 0)
    BY DeleteGrows
  <2>4. PICK z : z = (IF serviceMap[r][v] = NoAttrs THEN x ELSE createProm(y, u, a, l))
    OBVIOUS
  <2>5. Grows(z, x, 1)
    <3>1. Grows(createProm(y, u, a, l), x, 1)
      BY <2>3, CreateGrows
    <3>2. Grows(x, x, 1)
      BY DEF Grows, Exports
    <3> QED BY <2>4, <3>1, <3>2
  <2>6. tracker' = [tracker EXCEPT ![r] = t] /\ Export(r, z)
    BY <1>1, <1>3, <1>4, <1>6, <2>1, <2>2, <2>3, <2>4 DEF PromCreated, CountInv
  <2> QED BY <1>2, <1>4, <2>5, <2>6, CountStep DEF SourceIInv
<1>7. CASE ~Stale(r)
  <2>2. PICK t \in Trackers : t = AddPID(tracker[r], p, u)
    BY <1>5, TrackerTypes
  <2>3. PICK b \in Attrs \cup {NoAttrs} : b = serviceMap[r][u]
    BY <1>4 DEF Exports
  <2>4. PICK y : y = Withdraw(x, b) /\ Grows(y, x, 0)
    BY WithdrawGrows
  <2>5. PICK z : z = createProm(y, u, l, a) /\ Grows(z, x, 1)
    BY <2>4, CreateGrows
  <2>6. tracker' = [tracker EXCEPT ![r] = t] /\ Export(r, z)
    BY <1>1, <1>3, <1>4, <1>7, <2>2, <2>3, <2>4, <2>5 DEF PromCreated, CountInv
  <2> QED BY <1>2, <1>4, <2>5, <2>6, CountStep DEF SourceIInv
<1> QED BY <1>6, <1>7

LEMMA CountRemoved ==
    ASSUME SourceIInv, CountInv, NEW r \in Reporters, Terminated(r)
    PROVE  CountInv'
<1>1. Handling(r, "terminated")
  BY DEF Terminated
<1>2. PICK p \in PIDs, u \in UIDs, a \in Attrs : p = cur[r].pid /\ u = cur[r].uid /\ a = file[p]
  BY <1>1, EventAttrs DEF Handling
<1>3. PICK x \in Exports : x = Exported(r)
  BY DEF CountInv
<1>4. tracker[r] \in Trackers
  BY DEF CountInv
<1>5. PICK t \in Trackers : t = RemovePID(tracker[r], p)
  BY <1>4, TrackerTypes
<1>6. tracker' = [tracker EXCEPT ![r] = t]
  BY <1>2, <1>5 DEF Terminated, CountInv
<1>7. CASE ~WasLastPID(tracker[r], p)
  <2>1. Export(r, x)
    BY <1>2, <1>3, <1>7 DEF Terminated
  <2>2. Grows(x, x, 0)
    BY DEF Grows, Exports
  <2> QED BY <1>1, <1>3, <1>6, <2>1, <2>2, CountStep DEF SourceIInv
<1>8. CASE WasLastPID(tracker[r], p)
  <2>1. PICK v \in UIDs : v = tracker[r].svcOf[p]
    BY <1>4, <1>8 DEF WasLastPID, Trackers
  <2>2. PICK y : y = IF r = "prom" /\ serviceMap[r][v] = NoAttrs THEN Withdraw(x, a) ELSE x
    OBVIOUS
  <2>3. y \in Exports /\ \A b \in Attrs : y.series[b] <= x.series[b]
    <3>1. Grows(Withdraw(x, a), x, 0) /\ Grows(x, x, 0)
      BY WithdrawGrows DEF Grows, Exports
    <3>2. Grows(y, x, 0)
      BY <2>2, <3>1
    <3> QED BY <3>2 DEF Grows, Exports
  <2>4. PICK z : z = deleteSurveyInfo(y, v) /\ Grows(z, y, 0)
    BY <2>1, <2>3, DeleteGrows
  <2>5. Grows(z, x, 0)
    BY <2>3, <2>4 DEF Grows, Exports
  <2>6. Export(r, z)
    <3>1. Export(r, deleteSurveyInfo(IF r = "prom" /\ serviceMap[r][v] = NoAttrs
                                     THEN Withdraw(x, a) ELSE x, v))
      BY <1>2, <1>3, <1>8, <2>1 DEF Terminated
    <3>2. Export(r, deleteSurveyInfo(y, v))
      BY <2>2, <3>1
    <3> QED BY <2>4, <3>2
  <2> QED BY <1>1, <1>3, <1>6, <2>5, <2>6, CountStep DEF SourceIInv
<1> QED BY <1>7, <1>8

LEMMA CountInit == SurveyInit => CountInv
<1> SUFFICES ASSUME SurveyInit PROVE CountInv
  OBVIOUS
<1>1. DOMAIN tracker = Reporters /\ DOMAIN serviceMap = Reporters /\ DOMAIN series = Reporters
  BY DEF SurveyInit
<1>2. ASSUME NEW r \in Reporters
      PROVE  /\ tracker[r] \in Trackers /\ Exported(r) \in Exports
             /\ \A a \in Attrs : series[r][a] + Waiting(r) <= Cardinality(PIDs)
  <2>1. tracker[r] \in Trackers
    BY DEF SurveyInit, NewPidServiceTracker, Trackers
  <2>2. serviceMap[r] = [u \in UIDs |-> NoAttrs] /\ series[r] = [a \in Attrs |-> 0]
    BY DEF SurveyInit
  <2>3. Exported(r) \in Exports
    BY <2>2 DEF Exported, Exports
  <2>4. Fresh = PIDs
    BY DEF Fresh, SurveyInit
  <2>5. Len(elfs) = 0 /\ CreatedIn(r) = {} /\ CreatedNow(r) = 0
    BY DEF SurveyInit, CreatedIn, CreatedNow
  <2>6. Cardinality(CreatedIn(r)) = 0 /\ Cardinality(PIDs) \in Nat
    BY <2>5, FS_EmptySet, FS_CardinalityType, SurveyAssumption
  <2>7. Waiting(r) = Cardinality(PIDs)
    BY <2>4, <2>5, <2>6 DEF Waiting
  <2> QED BY <2>1, <2>2, <2>3, <2>6, <2>7
<1>3. cached \subseteq Exes /\ known \subseteq Containers
  BY DEF SurveyInit
<1> QED BY <1>1, <1>2, <1>3 DEF CountInv

LEMMA CountNext == SourceIInv /\ CountInv /\ [SurveyNext]_surveyVars => CountInv'
<1> SUFFICES ASSUME SourceIInv, CountInv, [SurveyNext]_surveyVars PROVE CountInv'
  OBVIOUS
<1>1. SourceType /\ cached \subseteq Exes /\ known \subseteq Containers
  BY DEF SourceIInv, CountInv
<1>2. ASSUME UNCHANGED <<proc, elfs, inbox, cur>> PROVE \A r \in Reporters : Waiting(r)' = Waiting(r)
  BY <1>2 DEF Waiting, Fresh, CreatedIn, CreatedNow
<1>3. ASSUME NEW c \in Containers, MetadataArrives(c) PROVE CountInv'
  BY <1>1, <1>2, <1>3, CountFrame DEF MetadataArrives, reporterVars
<1>4. ASSUME NEW batch \in Batches, Discover(batch) PROVE CountInv'
  <2>1. \A r \in Reporters : Waiting(r)' = Waiting(r)
    BY <1>1, <1>4, WaitingDiscover
  <2> QED BY <1>1, <1>4, <2>1, CountFrame DEF Discover, reporterVars
<1>5. ASSUME SurveyCreated PROVE CountInv'
  <2>1. \A r \in Reporters : Waiting(r)' = Waiting(r)
    BY <1>5, WaitingCreated
  <2>2. Head(elfs) \in PIDs
    BY <1>1, <1>5 DEF SurveyCreated, SourceType
  <2>3. cached' \subseteq Exes /\ known' \subseteq Containers
    BY <1>1, <1>5, <2>2, SurveyAssumption DEF SurveyCreated
  <2> QED BY <1>5, <2>1, <2>3, CountFrame DEF SurveyCreated, reporterVars
<1>6. ASSUME NEW p \in PIDs, SurveyTerminated(p) PROVE CountInv'
  <2>1. \A r \in Reporters : Waiting(r)' = Waiting(r)
    BY <1>1, <1>6, WaitingTerminated
  <2> QED BY <1>1, <1>6, <2>1, CountFrame DEF SurveyTerminated, reporterVars
<1>7. ASSUME NEW r \in Reporters, Receive(r) PROVE CountInv'
  <2>1. \A s \in Reporters : Waiting(s)' = Waiting(s)
    BY <1>7, WaitingReceive
  <2> QED BY <1>1, <1>7, <2>1, CountFrame DEF Receive, sourceVars
<1>12. ASSUME NEW r \in Reporters, Look(r) PROVE CountInv'
  BY <1>1, <1>2, <1>12, CountFrame DEF Look, sourceVars
<1>8. ASSUME NEW r \in Reporters, Terminated(r) PROVE CountInv'
  BY <1>8, CountRemoved
<1>9. CASE OtelCreated
  BY <1>9, CountOtel
<1>10. CASE PromCreated
  BY <1>10, CountProm
<1>11. CASE UNCHANGED surveyVars
  BY <1>1, <1>2, <1>11, CountFrame DEF surveyVars, sourceVars, reporterVars
<1> QED BY <1>3, <1>4, <1>5, <1>6, <1>7, <1>8, <1>9, <1>10, <1>11, <1>12 DEF SurveyNext

(* The state of survey mode keeps its types, also when UIDs change: every  *)
(* event that surveyor.run sends points to attributes with a UID, and no   *)
(* survey_info series counts more than once per process, although the OTEL *)
(* reporter adds 1 for every "created" event and may delete another series *)
(* than the one that it adds to.                                           *)
THEOREM SurveyTypeCorrect == SurveySpec => []SurveyTypeOK
<1>1. IInv => SourceIInv
  BY DEF IInv, SourceIInv
<1>2. SurveySpec => []CountInv
  BY <1>1, InvCorrect, CountInit, CountNext, PTL DEF SurveySpec
<1>3. ASSUME SourceIInv, CountInv PROVE SurveyTypeOK
  <2>1. file \in [PIDs -> Attrs \cup {NoAttrs, [NoAttrs EXCEPT !.lang = Lang]}]
    <3>1. file \in [PIDs -> [uid : UIDs \cup {NoUID}, lang : {Lang, NoLang}]]
      BY <1>3 DEF SourceIInv, SourceType
    <3>2. ASSUME NEW f \in [uid : UIDs \cup {NoUID}, lang : {Lang, NoLang}]
          PROVE  f \in Attrs \cup {NoAttrs, [NoAttrs EXCEPT !.lang = Lang]}
      <4>1. f = [uid |-> f.uid, lang |-> f.lang] /\ f.uid \in UIDs \cup {NoUID} /\ f.lang \in {Lang, NoLang}
        OBVIOUS
      <4>2. [NoAttrs EXCEPT !.lang = Lang] = [uid |-> NoUID, lang |-> Lang]
        BY DEF NoAttrs
      <4> QED BY <4>1, <4>2 DEF Attrs, NoAttrs
    <3> QED BY <3>1, <3>2
  <2>2. ASSUME NEW r \in Reporters
        PROVE  /\ cur[r] = NoEvent \/ cur[r] \in [type : {"created", "terminated"}, pid : PIDs, uid : UIDs]
               /\ tracker[r] \in Trackers
               /\ serviceMap[r] \in [UIDs -> Attrs \cup {NoAttrs}]
               /\ series[r] \in [Attrs -> 0 .. Cardinality(PIDs)]
    <3>1. cur[r] = NoEvent \/ cur[r] \in [type : {"created", "terminated"}, pid : PIDs, uid : UIDs]
      BY <1>3 DEF SourceIInv, SourceType, Handled
    <3>2. /\ tracker[r] \in Trackers /\ Exported(r) \in Exports
          /\ \A a \in Attrs : series[r][a] + Waiting(r) <= Cardinality(PIDs)
      BY <1>3 DEF CountInv
    <3>3. serviceMap[r] \in [UIDs -> Attrs \cup {NoAttrs}] /\ series[r] \in [Attrs -> Nat]
      <4>1. Exported(r).map = serviceMap[r] /\ Exported(r).series = series[r]
        BY DEF Exported
      <4> QED BY <3>2, <4>1 DEF Exports
    <3>4. Waiting(r) \in Nat /\ Cardinality(PIDs) \in Nat
      BY <1>3, WaitingFinite, SurveyAssumption, FS_CardinalityType DEF SourceIInv
    <3>5. \A a \in Attrs : series[r][a] \in 0 .. Cardinality(PIDs)
      BY <3>2, <3>3, <3>4
    <3>6. series[r] \in [Attrs -> 0 .. Cardinality(PIDs)]
      BY <3>3, <3>5
    <3> QED BY <3>1, <3>2, <3>3, <3>6
  <2>3. /\ proc \in [PIDs -> {"new", "found", "dead"}] /\ elfs \in Seq(PIDs)
        /\ renamed \in BOOLEAN /\ inbox \in [Reporters -> Seq(Events)]
        /\ looked \in [Reporters -> Attrs \cup {NoAttrs}] /\ torn \subseteq UIDs
    BY <1>3 DEF SourceIInv, SourceType
  <2>4. cached \subseteq Exes /\ known \subseteq Containers
    BY <1>3 DEF CountInv
  <2> QED BY <2>1, <2>2, <2>3, <2>4 DEF SurveyTypeOK
<1> QED BY <1>1, <1>2, <1>3, InvCorrect, PTL
=============================================================================
