---------------------------- MODULE HostMetadata ----------------------------
(***************************************************************************)
(* Where an event comes from: the detection of the host's cloud by the     *)
(* SDKs (metadata.py, metadata.ts) and the caches of its result in the     *)
(* clients (client.py, client.ts).                                         *)
(*                                                                         *)
(* A detection asks the metadata services of AWS, Azure and GCP one after  *)
(* the other.  Those of AWS and Azure have the same address, at which GCP  *)
(* answers too, and no probe looks at the status of the answer: one that   *)
(* another service gives to a path it does not know, an error page, counts *)
(* as a detection.  The token of AWS is sent back in a header, which takes *)
(* one line only: a page of several lines makes that probe raise.          *)
(*                                                                         *)
(* A Python client detects at the first record(), which waits for it; two  *)
(* threads may both find the cache empty.  Each Node client detects in the *)
(* background from its construction on, and its events carry what any      *)
(* client of the process has found so far.                                 *)
(***************************************************************************)
EXTENDS Integers, FiniteSets

CONSTANTS
    Callers,    \* the threads of a Python client, or the clients of a Node process
    MaxFaults,  \* bound: how many probes are lost or too slow
    MaxEvents   \* bound: events of each caller

ASSUME HostBoundAssumption == MaxFaults \in Nat /\ MaxEvents \in Nat

VARIABLES
    sdk,        \* python or node
    host,       \* [cloud, other]: the cloud it is in, and what answers to the
                \* probes for another one: nothing, a line, or a page
    detection,  \* where the detection of each caller is
    cached,     \* _host_metadata, cachedMetadata
    own,        \* hostMetadata of each Node client
    labels,     \* history: what each caller's events carry, as <<number, metadata>>
    faults      \* faults so far

hostVars == <<sdk, host, detection, cached, own, labels, faults>>

Clouds == {"aws", "azure", "gcp"}
Probes == {"token", "instance", "azure", "gcp"}
Unset == [label |-> "unset", instance |-> "none"]
Unknown == [label |-> "unknown", instance |-> "none"]

HostInit ==
    /\ sdk \in {"python", "node"}
    /\ host \in [cloud : Clouds \union {"none"}, other : {"none", "line", "page"}]
    /\ detection = [c \in Callers |-> IF sdk = "node" THEN "token" ELSE "idle"]
    /\ cached = Unset
    /\ own = [c \in Callers |-> Unset]
    /\ labels = [c \in Callers |-> {}]
    /\ faults = 0

-----------------------------------------------------------------------------
(* Detection.                                                              *)

\* What a probe gets: the instance (or the token) from the right service, or
\* what the one that has the address answers.  Only GCP knows its host name,
\* but without a cloud there may be a proxy that answers everything.
Answer(probe) ==
    CASE host.cloud = "aws" /\ probe \in {"token", "instance"} -> "line"
      [] host.cloud = probe -> "line"
      [] host.cloud \in {"aws", "azure"} /\ probe = "gcp" -> "none"
      [] OTHER -> host.other

Detected(c, label, instance) ==
    /\ cached' = [label |-> label, instance |-> instance]
    /\ own' = IF sdk = "node" THEN [own EXCEPT ![c] = cached'] ELSE own
    /\ detection' = [detection EXCEPT ![c] = IF sdk = "node" THEN "done" ELSE "return"]

GoOn(c, probe) ==
    detection' = [detection EXCEPT ![c] = probe] /\ UNCHANGED <<cached, own>>

\* Wrong: a detection that found nothing starts again.
AfterLast_Again(c, answer) ==
    IF answer = "none" THEN GoOn(c, "token") ELSE Detected(c, "gcp", answer)

\* Wrong: a probe that raises counts as well.
AfterLast_Raised(c, answer) == Detected(c, "gcp", answer)

AfterLast(c, answer) ==
    Detected(c, IF answer = "none" THEN "on-prem" ELSE "gcp", answer)

\* get_host_metadata() and its probes.
AfterAnswer(c, answer) ==
    CASE detection[c] = "token"    -> GoOn(c, IF answer = "line" THEN "instance" ELSE "azure")
      [] detection[c] = "instance" -> IF answer = "none" THEN GoOn(c, "azure")
                                  ELSE Detected(c, "aws", answer)
      [] detection[c] = "azure"    -> IF answer = "none" THEN GoOn(c, "gcp")
                                  ELSE Detected(c, "azure", answer)
      [] detection[c] = "gcp"      -> AfterLast(c, answer)

Probe(c) ==
    /\ detection[c] \in Probes
    /\ AfterAnswer(c, Answer(detection[c]))
    /\ UNCHANGED <<sdk, host, labels, faults>>

\* The answer does not come within the second.
ProbeLost(c) ==
    /\ detection[c] \in Probes
    /\ faults < MaxFaults /\ faults' = faults + 1
    /\ AfterAnswer(c, "none")
    /\ UNCHANGED <<sdk, host, labels>>

-----------------------------------------------------------------------------
(* Recording events.                                                       *)

Label(c, metadata) ==
    /\ Cardinality(labels[c]) < MaxEvents
    /\ labels' = [labels EXCEPT ![c] = @ \union {<<Cardinality(@) + 1, metadata>>}]

\* The property host_metadata: cached, or detected now.
RecordPython(c) ==
    /\ sdk = "python" /\ detection[c] = "idle"
    /\ Cardinality(labels[c]) < MaxEvents
    /\ IF cached = Unset
       THEN detection' = [detection EXCEPT ![c] = "token"] /\ UNCHANGED labels
       ELSE Label(c, cached) /\ UNCHANGED detection
    /\ UNCHANGED <<sdk, host, cached, own, faults>>

\* It returns what the cache holds by now.
ReturnPython(c) ==
    /\ detection[c] = "return"
    /\ Label(c, cached)
    /\ detection' = [detection EXCEPT ![c] = "idle"]
    /\ UNCHANGED <<sdk, host, cached, own, faults>>

\* this.hostMetadata || getHostMetadataSync()
Known(c) ==
    IF own[c] # Unset THEN own[c] ELSE IF cached # Unset THEN cached ELSE Unknown

RecordNode(c) ==
    /\ sdk = "node"
    /\ Label(c, Known(c))
    /\ UNCHANGED <<sdk, host, detection, cached, own, faults>>

HostNext ==
    \E c \in Callers :
        \/ Probe(c) \/ ProbeLost(c)
        \/ RecordPython(c) \/ ReturnPython(c) \/ RecordNode(c)

\* Every probe is answered or times out.
HostSpec ==
    /\ HostInit /\ [][HostNext]_hostVars
    /\ \A c \in Callers : WF_hostVars(Probe(c)) /\ WF_hostVars(ReturnPython(c))

-----------------------------------------------------------------------------
(* Properties.                                                             *)

Detecting(c) == detection[c] \in Probes \union {"return"}

Metadata == [label : Clouds \union {"on-prem"}, instance : {"none", "line", "page"}]

HostTypeOK ==
    /\ sdk \in {"python", "node"}
    /\ detection \in [Callers -> Probes \union {"idle", "return", "done"}]
    /\ cached \in Metadata \union {Unset}
    /\ \A c \in Callers :
          /\ own[c] \in Metadata \union {Unset}
          /\ detection[c] = "done" <=> own[c] # Unset
          /\ labels[c] \subseteq (1..MaxEvents) \X (Metadata \union {Unknown})
    /\ faults \in 0..MaxFaults

\* The label and the instance that a host should get.
Truth ==
    IF host.cloud = "none" THEN [label |-> "on-prem", instance |-> "none"]
    ELSE [label |-> host.cloud, instance |-> "line"]

\* Where nothing but the right service answers, a label is wrong only if a
\* probe was lost, and then it is "on-prem"; and where nothing was lost, all
\* events get the same label, from whatever thread or client they come.
LabelsRight ==
    \A c, d \in Callers : \A e \in labels[c], f \in labels[d] :
        e[2] # Unknown /\ f[2] # Unknown =>
            /\ host.other = "none" =>
                  e[2] = Truth \/ (faults > 0 /\ e[2].label = "on-prem")
            /\ faults = 0 => e[2] = f[2]

\* Every detection ends: record() does not wait for ever, and the events of
\* a Node client do not stay "unknown".
DetectionEnds == \A c \in Callers : Detecting(c) ~> ~Detecting(c)

\* "Cloud provider (AWS, Azure, GCP, or on-prem)" (metadata.py:129): what is
\* detected, when no probe is lost, is where the host is.
DetectsCloud ==
    faults = 0 =>
        \A c \in Callers : \A e \in labels[c] : e[2] # Unknown => e[2] = Truth
=============================================================================
