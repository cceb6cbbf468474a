-------------------------------- MODULE HostKey --------------------------------
(***************************************************************************)
(* The relay's host key file (keys.py, load_or_create_host_seed): how a    *)
(* relay process that starts finds or makes the seed of its host key in    *)
(* the state directory.  Processes may be started side by side, and may    *)
(* die between any two system calls.                                       *)
(***************************************************************************)
EXTENDS Integers

CONSTANTS Relays,    \* relay processes that share a state directory
          MaxStarts  \* bound: starts of all of them

ASSUME MaxStartsAssumption == MaxStarts \in Nat

VARIABLES hostFile,  \* the file ssh_host_ed25519_seed
          hpc,       \* where a relay process stands
          hostSeed,  \* RelayServer.host_seed
          made,      \* seeds made so far; each is named by its number
          starts     \* starts so far

hostKeyVars == <<hostFile, hpc, hostSeed, made, starts>>

Absent == -1
Empty == 0      \* what a file holds, and a seed is read from it, before the write
Seeds == 1..MaxStarts

HPlaces == {"down", "looking", "reading", "creating", "writing", "serving"}

HostKeyTypeOK ==
    /\ hostFile \in {Absent, Empty} \cup Seeds
    /\ hpc \in [Relays -> HPlaces]
    /\ hostSeed \in [Relays -> {Empty} \cup Seeds]
    /\ made \in 0..starts /\ starts \in 0..MaxStarts

HostKeyInit ==
    /\ hostFile = Absent
    /\ hpc = [r \in Relays |-> "down"]
    /\ hostSeed = [r \in Relays |-> Empty]
    /\ made = 0 /\ starts = 0

HostGoes(r, place) == hpc' = [hpc EXCEPT ![r] = place]

Start(r) ==
    /\ hpc[r] = "down"
    /\ starts < MaxStarts
    /\ starts' = starts + 1
    /\ HostGoes(r, "looking")
    /\ UNCHANGED <<hostFile, hostSeed, made>>

\* path.exists(), and a seed is made if it does not
Look(r) ==
    /\ hpc[r] = "looking"
    /\ IF hostFile = Absent
       THEN /\ made' = made + 1
            /\ hostSeed' = [hostSeed EXCEPT ![r] = made']
            /\ HostGoes(r, "creating")
       ELSE HostGoes(r, "reading") /\ UNCHANGED <<hostSeed, made>>
    /\ UNCHANGED <<hostFile, starts>>

ReadSeed(r) ==
    /\ hpc[r] = "reading"
    /\ hostSeed' = [hostSeed EXCEPT ![r] = hostFile]
    /\ HostGoes(r, "serving")
    /\ UNCHANGED <<hostFile, made, starts>>

\* mutant: open() without O_EXCL empties a file that is there by now
CreateAnyway(r) ==
    /\ hpc[r] = "creating"
    /\ hostFile' = Empty /\ HostGoes(r, "writing")
    /\ UNCHANGED <<hostSeed, made, starts>>

\* O_CREAT and O_EXCL: a file that is there by now ends the process
Create(r) ==
    /\ hpc[r] = "creating"
    /\ \/ hostFile = Absent /\ hostFile' = Empty /\ HostGoes(r, "writing")
       \/ hostFile # Absent /\ HostGoes(r, "down") /\ UNCHANGED hostFile
    /\ UNCHANGED <<hostSeed, made, starts>>

WriteSeed(r) ==
    /\ hpc[r] = "writing"
    /\ hostFile' = hostSeed[r]
    /\ HostGoes(r, "serving")
    /\ UNCHANGED <<hostSeed, made, starts>>

\* the process dies, or is stopped
Crash(r) ==
    /\ hpc[r] # "down"
    /\ HostGoes(r, "down")
    /\ UNCHANGED <<hostFile, hostSeed, made, starts>>

\* an SSHConnection can be made: from the seed an empty file gives no key can
\* be derived, which raises in its constructor
CanServe(r) == hpc[r] = "serving" /\ hostSeed[r] # Empty

HostKeyNext ==
    \E r \in Relays :
        Start(r) \/ Look(r) \/ ReadSeed(r) \/ Create(r) \/ WriteSeed(r) \/ Crash(r)

HostKeySpec == HostKeyInit /\ [][HostKeyNext]_hostKeyVars

-----------------------------------------------------------------------------
(* Properties *)

\* Every relay process that serves does so with the seed in the file: a start
\* that races another, or that follows a crash, neither replaces the seed nor
\* serves with one of its own (keys.py:26-36).
ServesTheFile == \A r \in Relays : CanServe(r) => hostSeed[r] = hostFile

\* A relay that is started serves: "Start the relay" (README.md:28).  The code
\* does not have this property: after a crash between creating the file and
\* writing it no start does.
StartedServes == \A r \in Relays : hpc[r] = "serving" => CanServe(r)
=============================================================================
