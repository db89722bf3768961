---------------------------- MODULE HostSelection ----------------------------
(***************************************************************************)
(* Admission of a run to an SSH worker host                                *)
(* (internal/runner/host_selection.go).  The selector is stateless: the    *)
(* caller passes the number of runs it counts on every host.               *)
(***************************************************************************)
EXTENDS Naturals, Sequences, FiniteSets

CONSTANTS
  Hosts,       (* worker.ssh_hosts, in configuration order, trimmed         *)
  MaxPerHost,  (* worker.max_concurrent_agents_per_host, or Unlimited       *)
  Unlimited,   (* the nil *int                                              *)
  Local        (* the empty host name: run on this machine                  *)

HostSet == {Hosts[k] : k \in DOMAIN Hosts}

ASSUME HostAssumption ==
  /\ Hosts \in Seq(HostSet)
  /\ Local \notin HostSet
  /\ MaxPerHost # Unlimited => MaxPerHost \in Nat \ {0}

(* What a run may name as its host.                                        *)
HostName == HostSet \cup {Local}

(* Altered: room for one more than the limit.                              *)
RoomForOneMore(running) == MaxPerHost # Unlimited => running <= MaxPerHost

HasCapacity(running) == MaxPerHost # Unlimited => running < MaxPerHost

(* Positions of the configured hosts that still have room under load.      *)
Open(load) == {k \in DOMAIN Hosts : HasCapacity(load[Hosts[k]])}

(* j is a better choice than k: less loaded, or as loaded and listed first. *)
Beats(load, j, k) ==
  \/ load[Hosts[j]] < load[Hosts[k]]
  \/ load[Hosts[j]] = load[Hosts[k]] /\ j < k

(* The least loaded open host, the first one in configuration order on a   *)
(* tie.  Meaningful only when Open(load) is not empty.                     *)
LeastLoaded(load) ==
  Hosts[CHOOSE k \in Open(load) : \A j \in Open(load) : ~Beats(load, j, k)]

(* Select never fails without configured hosts, sticks to a preferred host *)
(* with room, and rejects only when every configured host is full.         *)
Admits(preferred, load) == Hosts = <<>> \/ Open(load) # {}

Select(preferred, load) ==
  IF Hosts = <<>> THEN Local
  ELSE IF preferred \in HostSet /\ HasCapacity(load[preferred])
       THEN preferred
       ELSE LeastLoaded(load)
=============================================================================
