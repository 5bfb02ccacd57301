---------------------------- MODULE VerifyCommand ----------------------------
(***************************************************************************)
(* The verify command: handle_verify of src/bin/par2.rs, with the loading  *)
(* of packets and the conclusions of src/verify.                           *)
(*                                                                         *)
(*   load each volume -> scan each file -> conclude -> purge               *)
(*                                                                         *)
(* The code loads volumes and scans files in parallel and merges what they *)
(* yield in argument order; here they are taken in that order.             *)
(***************************************************************************)
EXTENDS BlockScanner, PacketLoader

ASSUME VolumesAssumption == \A j \in Jobs : j.volumes \in Seq(Seq(Cell))

VARIABLES
  volume,  \* volume to be loaded next
  read,    \* volumes that could be read
  packets, \* packets loaded
  counted, \* recovery slices counted
  outcome, \* exit of the command
  purged   \* the volumes are deleted

vars ==
  <<job, set, which, pc, buffer, processed, position, crc, misses, found,
    hashed, faults, volume, read, packets, counted, outcome, purged>>

loadVars == <<volume, read, packets, counted>>

-----------------------------------------------------------------------------
(* Loading *)

Init ==
  /\ job \in Jobs
  /\ set = << >>
  /\ which = 1 /\ pc = "load"
  /\ buffer = <<>> /\ processed = 0 /\ position = 0
  /\ crc = NoCrc /\ misses = 0
  /\ found = [w \in DOMAIN job.disk |-> {}]
  /\ hashed = {} /\ faults = 0
  /\ volume = 1 /\ read = {} /\ packets = {} /\ counted = 0
  /\ outcome = "none" /\ purged = FALSE

\* A volume that cannot be opened is passed over with a warning.
LoadVolume ==
  /\ pc = "load" /\ volume <= Len(job.volumes)
  /\ \/ LET entries == ParsePackets(job.volumes[volume])
        IN  /\ packets' = Merged(packets, entries)
            /\ counted' = counted + RecoveryCount(entries)
            /\ read' = read \cup {volume} /\ UNCHANGED faults
     \/ Fault /\ UNCHANGED <<packets, counted, read>>
  /\ volume' = volume + 1
  /\ UNCHANGED <<job, set, which, pc, buffer, processed, position, crc, misses,
                 found, hashed, outcome, purged>>

PacketsAbout(type, f) ==
  {e \in packets : e.packet.type = type /\ e.packet.about = f}
AllIntact(entries) == entries # {} /\ \A e \in entries : e.intact
HasMain == PacketsAbout("main", 0) # {}

\* A slice that nothing read can equal
Unknown == <<>>

\* A damaged description is of a file with another name, damaged checksums, or
\* none, match nothing.
SetOf ==
  [f \in {g \in DOMAIN job.data : PacketsAbout("description", g) # {}} |->
     LET named == AllIntact(PacketsAbout("description", f))
         known == named /\ AllIntact(PacketsAbout("checksums", f))
         length == Len(job.data[f])
     IN  [named |-> named, length |-> length,
          slices |-> IF known THEN Cut(job.data[f])
                     ELSE [i \in 1..Blocks(length) |-> Unknown]]]

\* Without a main packet nothing is scanned.
BeginScan ==
  /\ pc = "load" /\ volume > Len(job.volumes)
  /\ IF HasMain THEN pc' = "open" /\ set' = SetOf
     ELSE pc' = "conclude" /\ UNCHANGED set
  /\ UNCHANGED <<job, which, buffer, processed, position, crc, misses, found,
                 hashed, faults, outcome, purged>> /\ UNCHANGED loadVars

-----------------------------------------------------------------------------
(* Conclusions, by the operators of GlobalVerify *)

Engine == INSTANCE GlobalVerify WITH
  File <- DOMAIN set, Rank <- [f \in DOMAIN set |-> f],
  Loaded <- [f \in DOMAIN set |-> f],
  Data <- [f \in DOMAIN set |-> set[f].slices],
  Block <- {}, Junk <- Unknown, Path <- {}, Absent <- Unknown,
  Extras <- <<>>, RenameOnly <- FALSE

FoundIn(w) == {set[e[2][1]].slices[e[2][2]] : e \in found[w]}
OwnFound(f) ==
  {<<e[1] + 1, e[2][2]>> : e \in {x \in found[f] : x[2][1] = f}}

Status(f) ==
  LET total == 1..Blocks(set[f].length)
      here == {i \in total : Engine!Has(f, i, FoundIn(f))}
  IN  IF ~ToScan(f) THEN "missing"
      ELSE IF here = total
      THEN IF /\ Engine!PerfectMatch(OwnFound(f))
              /\ f \in hashed /\ job.disk[f].bytes = job.data[f]
           THEN "present" ELSE "corrupted"
      ELSE IF here = {} THEN "missing" ELSE "corrupted"

\* Some extra file is exactly a protected file that needs one.
RenamedFiles ==
  {f \in DOMAIN set :
     /\ set[f].named /\ Status(f) # "present"
     /\ \E w \in DOMAIN job.disk :
          Extra(w) /\ w \in hashed /\ job.disk[w].bytes = job.data[f]}

FoundAnywhere == UNION {FoundIn(w) : w \in DOMAIN job.disk}

\* Fault for testing: a file that is not there has no missing blocks.
MissingIfThere(f) ==
  {i \in 1..Blocks(set[f].length) :
     Status(f) # "missing" /\ ~Engine!Has(f, i, FoundAnywhere)}

MissingOf(f) ==
  {i \in 1..Blocks(set[f].length) : ~Engine!Has(f, i, FoundAnywhere)}
MissingCount == Cardinality(UNION {{f} \X MissingOf(f) : f \in DOMAIN set})

Exit(result) == outcome' = result /\ pc' = "exit"

\* Only missing blocks and wrong names count for the exit.  Purging needs a
\* main packet.
Conclude ==
  /\ \/ pc = "conclude"
     \/ pc = "open" /\ which > Len(job.disk)
  /\ IF RenamedFiles # {} THEN Exit("renamed") /\ UNCHANGED purged
     ELSE IF MissingCount = 0
     THEN IF job.purge /\ ~HasMain THEN Exit("error") /\ UNCHANGED purged
          ELSE Exit("ok") /\ purged' = job.purge
     ELSE /\ Exit(IF counted >= MissingCount THEN "repairable" ELSE "impossible")
          /\ UNCHANGED purged
  /\ UNCHANGED <<job, set, which, buffer, processed, position, crc, misses,
                 found, hashed, faults>> /\ UNCHANGED loadVars

Scan == ScanStep /\ UNCHANGED loadVars /\ UNCHANGED <<outcome, purged>>

Exited == pc = "exit" /\ UNCHANGED vars

Next == LoadVolume \/ BeginScan \/ Scan \/ Conclude \/ Exited

Spec == Init /\ [][Next]_vars
=============================================================================
