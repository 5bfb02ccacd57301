-------------------------------- MODULE MCPar1 --------------------------------
(* Sets for TLC: bytes of two bits, the engine's words of four bits. *)
EXTENDS Par1Properties, TLC

A == <<1, 3, 2, 0, 1>>
B == <<2, 1>>
Bad == <<3>>
X == Other(1)

Intact(v) == [volume |-> v, state |-> "ok", dataFirst |-> FALSE,
              change |-> <<>>, finished |-> FALSE]
IndexFile == Intact(0)
Volume(v) == Intact(v)

Changed(d, state, change, finished) ==
  [d EXCEPT !.state = state, !.change = change, !.finished = finished]

\* A field overwritten, a header that says what cannot be, another set
DamagedFiles ==
  {Changed(Volume(1), "damaged", c, FALSE) :
     c \in {[magic |-> "RAR"], [version |-> 1], [control |-> <<>>],
            [setHash |-> <<>>], [number |-> 2], [count |-> 2], [dataAt |-> 96],
            [dataSize |-> 3], [listAt |-> 97], [body |-> <<>>]}}
  \cup {Changed(Volume(1), "damaged", c, TRUE) :
          c \in {[number |-> 256], [count |-> 0], [count |-> 2], [count |-> 4],
                 [listAt |-> 95], [listSize |-> 0], [listSize |-> 1000],
                 [dataAt |-> 90], [dataAt |-> 96], [dataAt |-> 100],
                 [dataSize |-> 1000], [listAt |-> 100]}}
  \cup {Changed([Volume(1) EXCEPT !.dataFirst = TRUE], "damaged",
                [dataSize |-> 6], TRUE)}
OtherFiles ==
  {Changed(IndexFile, "other", c, TRUE) :
     c \in {[setHash |-> <<>>], [program |-> 2, setHash |-> <<>>]}}

\* Recovery files by name: volumes come before the index.
FileSets ==
  {<<Volume(1), Volume(2), IndexFile>>, <<Volume(1), Volume(1), IndexFile>>,
   <<Volume(1), IndexFile>>, <<Volume(2), IndexFile>>, <<IndexFile>>}

DiskOf(a, b, x, old) ==
  [p \in ({1, 2} \X (0..3)) \cup {X} |->
     CASE p = Target(1) -> a [] p = Target(2) -> b [] p = X -> x
       [] p = Backup(1, 1) -> old [] OTHER -> Absent]

Job(data, files, found, extras, far, limit) ==
  [data |-> data, files |-> files, disk |-> found, extras |-> extras,
   far |-> far, memory |-> limit, purge |-> TRUE, command |-> "repair",
   level |-> "none", suffixes |-> 3]

Limit4(files) == IF Len(files) = 2 THEN 4 ELSE NoLimit

\* Each target right, gone, damaged or the other one; a wrong-name copy, here
\* or on another file system; extra files that are targets.
PairJobs ==
  {Job(<<A, B>>, files, DiskOf(a, b, x, old), extras,
       IF old = Absent THEN {} ELSE {X}, Limit4(files)) :
     files \in FileSets, a \in {A, Absent, Bad, B}, b \in {B, Absent, A},
     x \in {Absent, A, B}, old \in {Absent, Bad},
     extras \in {<<X>>, <<X, Target(1), Target(2)>>}}

VerifyJobs ==
  {[Job(<<A, B>>, files, DiskOf(a, B, Absent, Absent), <<>>, {}, NoLimit)
      EXCEPT !.command = "verify"] :
     a \in {A, Bad},
     files \in FileSets \cup {<<d>> : d \in DamagedFiles}}

\* Equal files, an empty one, recovery files that do not belong together, a
\* limit that is refused
OtherJobs ==
  {Job(<<A, A, <<>>>>, <<Volume(1), IndexFile>>,
       [p \in ({1, 2, 3} \X (0..3)) \cup {X} |->
          IF p = X THEN A ELSE IF p = Target(1) THEN a ELSE Absent],
       <<X>>, {}, 4) : a \in {A, Absent, Bad}}
  \cup {Job(<<A, B>>, <<Volume(1), d>>, DiskOf(Absent, B, Absent, Absent),
            <<>>, {}, NoLimit) :
          d \in OtherFiles \cup DamagedFiles
                  \cup {[Volume(2) EXCEPT !.dataFirst = TRUE],
                        Changed(IndexFile, "ok", [program |-> 2], FALSE)}}
  \cup {Job(<<A, B>>, <<Volume(1), IndexFile>>,
            DiskOf(Absent, B, Absent, Absent), <<>>, {}, 0)}

MCJobs == PairJobs \cup VerifyJobs \cup OtherJobs

\* Two files missing and two recovery files
VolumesJobs ==
  {Job(<<A, B>>, <<Volume(1), Volume(2), IndexFile>>,
       DiskOf(Absent, Absent, Absent, Absent), <<>>, {}, NoLimit)}

\* The theorems about the commands take these laws for granted.
ASSUME FieldLaws /\ CoefficientsAreWords
=============================================================================
