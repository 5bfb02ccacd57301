----------------------------- MODULE CommandLine -----------------------------
(***************************************************************************)
(* From the options of a create command to its configuration: the par2     *)
(* and par2create programs, src/create/cli.rs, the builder and             *)
(* CreateConfig::validate.                                                 *)
(*                                                                         *)
(* An option is <<value>>, or <<>> when it is not given.  Sources are      *)
(* their sizes in cells of four bytes, Missing for a path where no file    *)
(* is.  Of names only their kind matters: "par2", "par1" or "plain".       *)
(***************************************************************************)
EXTENDS Integers, Sequences

CONSTANTS
  Kilo,          \* 1024
  MaxWord,       \* largest number of bytes (2^64 - 1)
  DefaultBlocks, \* number of blocks when nothing is said of it (2000)
  DefaultMemory, \* bytes of memory when nothing is said of it (1 GiB)
  MaxBlocks,     \* most blocks, slices and first exponent (32768)
  MaxVolumes     \* most volumes that can be asked for (31)

ASSUME CommandLineAssumption ==
  /\ Kilo \in Nat \ {0} /\ MaxWord \in Nat
  /\ DefaultBlocks \in Nat \ {0} /\ DefaultMemory \in Nat \ {0}
  /\ MaxBlocks \in Nat /\ MaxVolumes \in Nat

Missing == -1

Option(S) == {<<>>} \cup [1..1 -> S]
Given(option) == option # <<>>
ValueOr(option, default) == IF Given(option) THEN option[1] ELSE default

Kind == {"par2", "par1", "plain"}
Redundancy == [unit : {"", "k", "m", "g"}, number : Option(Nat)]

\* What the parser of the options makes of a command line.
Options ==
  [named : [kind : Kind, size : Nat \cup {Missing}],
   sources : Seq(Nat \cup {Missing}), archive : Option(Kind),
   blockCount : Option(Nat), blockSize : Option(Nat),
   redundancy : Option(Redundancy), recoveryCount : Option(Nat),
   first : Option(Nat), uniform : BOOLEAN, limited : BOOLEAN,
   files : Option(Nat), memory : Option(Nat), overwrite : BOOLEAN]

\* A command line without options, that names a set.
Plain ==
  [named |-> [kind |-> "par2", size |-> Missing], sources |-> <<>>,
   archive |-> <<>>, blockCount |-> <<>>, blockSize |-> <<>>,
   redundancy |-> <<>>, recoveryCount |-> <<>>, first |-> <<>>,
   uniform |-> FALSE, limited |-> FALSE, files |-> <<>>, memory |-> <<>>,
   overwrite |-> FALSE]

\* Options that exclude each other.
Conflict(o) ==
  \/ Given(o.blockCount) /\ Given(o.blockSize)
  \/ Given(o.redundancy) /\ Given(o.recoveryCount)
  \/ o.limited /\ (o.uniform \/ Given(o.files))

-----------------------------------------------------------------------------
(* Values.  The result of a parser is an option: <<>> is an error. *)

Bytes(n, factor) == IF n * factor <= MaxWord THEN <<n * factor>> ELSE <<>>

Factor == [k |-> Kilo, m |-> Kilo * Kilo, g |-> Kilo * Kilo * Kilo]

\* Percent, or a size with a unit before or behind the digits; the number is
\* missing when there is something else than digits.
ParseRedundancy(r) ==
  IF ~Given(r.number) THEN <<>>
  ELSE IF r.unit \in DOMAIN Factor
  THEN LET size == Bytes(r.number[1], Factor[r.unit])
       IN  IF Given(size) THEN <<[kind |-> "size", n |-> size[1]]>> ELSE <<>>
  ELSE <<[kind |-> "percent", n |-> r.number[1]]>>

ParseMemory(mb) == IF mb = 0 THEN <<>> ELSE Bytes(mb, Factor.m)

ValuesParse(o) ==
  /\ Given(o.redundancy) => Given(ParseRedundancy(o.redundancy[1]))
  /\ Given(o.memory) => Given(ParseMemory(o.memory[1]))
  /\ Given(o.files) => o.files[1] \in 1..MaxVolumes

\* Without sources the file that is named is the source, if there is one.
CanProtectNamed(o) == o.named.kind # "par2" /\ o.named.size > 0

Sources(o) == IF o.sources # <<>> THEN o.sources ELSE <<o.named.size>>

OutputKind(o) ==
  ValueOr(o.archive, IF o.sources # <<>> THEN o.named.kind ELSE "par2")

InputsResolve(o) ==
  /\ o.sources = <<>> => CanProtectNamed(o)
  /\ OutputKind(o) # "par1"

-----------------------------------------------------------------------------
(* Configuration *)

DefaultConfig ==
  [blockSize |-> <<>>, blockCount |-> <<>>, recoveryCount |-> <<>>,
   percent |-> <<5>>, targetSize |-> <<>>, scheme |-> "variable",
   files |-> <<>>, memory |-> <<>>, overwrite |-> FALSE, first |-> 0]

\* A size takes the place of the percentage, and the other way round.
WithRedundancy(config, r) ==
  CASE r.kind = "percent" ->
         [config EXCEPT !.percent = <<r.n>>, !.targetSize = <<>>]
    [] r.kind = "size" ->
         [config EXCEPT !.targetSize = <<r.n>>, !.percent = <<>>]

\* A number of volumes alone makes them uniform.
Scheme(o) ==
  IF o.limited THEN "limited"
  ELSE IF o.uniform \/ Given(o.files) THEN "uniform"
  ELSE DefaultConfig.scheme

Config(o) ==
  LET amount == IF Given(o.redundancy)
                THEN WithRedundancy(DefaultConfig,
                                    ParseRedundancy(o.redundancy[1])[1])
                ELSE DefaultConfig
  IN  [amount EXCEPT
         !.blockSize = o.blockSize, !.blockCount = o.blockCount,
         !.recoveryCount = o.recoveryCount, !.files = o.files,
         !.scheme = Scheme(o), !.overwrite = o.overwrite,
         !.first = ValueOr(o.first, 0),
         !.memory = IF Given(o.memory) THEN ParseMemory(o.memory[1])
                    ELSE <<>>]

IsValid(config) ==
  /\ config.percent # <<0>>
  /\ Given(config.blockSize) =>
       config.blockSize[1] >= 1 /\ config.blockSize[1] % 4 = 0
  /\ Given(config.blockCount) => config.blockCount[1] \in 1..MaxBlocks
  /\ Given(config.recoveryCount) => config.recoveryCount[1] <= MaxBlocks
  /\ Given(config.files) =>
       config.files[1] \in 1..MaxVolumes /\ config.recoveryCount # <<0>>
  /\ config.first <= MaxBlocks

\* What decides the number of slices: a number, else a size, else percent.
Request(config) ==
  IF Given(config.recoveryCount)
  THEN [kind |-> "count", n |-> config.recoveryCount[1]]
  ELSE IF Given(config.targetSize)
  THEN [kind |-> "size", n |-> config.targetSize[1]]
  ELSE [kind |-> "percent", n |-> config.percent[1]]

\* The job of a configuration: a target of zero blocks stands for a block size
\* that is given, zero files for the number that the scheme chooses.
Job(o, config) ==
  [accepted |-> TRUE, asked |-> o, sizes |-> Sources(o),
   target |-> IF Given(config.blockSize) THEN 0
              ELSE ValueOr(config.blockCount, DefaultBlocks),
   block |-> ValueOr(config.blockSize, 0) \div 4,
   request |-> Request(config), first |-> config.first,
   files |-> ValueOr(config.files, 0), scheme |-> config.scheme,
   overwrite |-> config.overwrite,
   memory |-> ValueOr(config.memory, DefaultMemory)]

IsAccepted(o) ==
  ~Conflict(o) /\ ValuesParse(o) /\ InputsResolve(o) /\ IsValid(Config(o))

JobOf(o) ==
  IF IsAccepted(o) THEN Job(o, Config(o))
  ELSE [accepted |-> FALSE, asked |-> o, sizes |-> Sources(o)]
=============================================================================
