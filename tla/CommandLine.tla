----------------------------- MODULE CommandLine -----------------------------
(***************************************************************************)
(* The command line of main: pairs of an option and its value, read into a *)
(* map, and the parameters validated from it, from which all components    *)
(* are built.                                                              *)
(***************************************************************************)
EXTENDS Integers, Sequences

CONSTANT MaxInt   \* INT_MAX

ASSUME MaxIntAssumption == MaxInt \in Nat /\ MaxInt >= 65535

\* What the program makes of an argument: whether it starts like an option, its
\* length, the number atoi reads and the IP version inet_pton reads.
Argument == [text : STRING, dash : BOOLEAN, length : Nat, int : -MaxInt .. MaxInt, ver : {0, 4, 6}]

\* Every other argument has to look like an option, and takes the next one for
\* its value whatever it looks like.
IsOption(arg) == arg.length >= 2 /\ arg.dash

WellFormed(argv) == \A i \in DOMAIN argv : i % 2 = 1 => IsOption(argv[i])

\* The places of an option's values: a last option without one is not noticed.
Places(argv, name) == {i \in DOMAIN argv : i % 2 = 0 /\ argv[i - 1].text = name}

Given(argv, name) == Places(argv, name) # {}

\* The map keeps the last.
Arg(argv, name) ==
  argv[CHOOSE i \in Places(argv, name) : \A j \in Places(argv, name) : j <= i]

Defaults == [rp |-> 100, ttl |-> 9000, mi |-> 5, mp |-> 5, mr |-> 60, fi |-> 5]

Option == [rp |-> "-rp", ttl |-> "-ttl", mi |-> "-mi", mp |-> "-mp", mr |-> "-mr", fi |-> "-fi"]

Number(argv, n) ==
  IF Given(argv, Option[n]) THEN Arg(argv, Option[n]).int ELSE Defaults[n]

\* One more than the metric, in an int.
Succ(n) == IF n = MaxInt THEN -MaxInt - 1 ELSE n + 1

BlackholeMetric(argv) ==
  IF Given(argv, "-bp") THEN Arg(argv, "-bp").int ELSE Succ(Number(argv, "rp"))

\* Mutant: the same priority is accepted for both kinds of routes.
BlackholeMetricValidLoose(argv) ==
  Given(argv, "-bp") => BlackholeMetric(argv) >= 1 /\ BlackholeMetric(argv) >= Number(argv, "rp")

BlackholeMetricValid(argv) ==
  Given(argv, "-bp") => BlackholeMetric(argv) >= 1 /\ BlackholeMetric(argv) > Number(argv, "rp")

NumbersValid(argv) ==
  /\ \A n \in DOMAIN Option : Number(argv, n) >= 1
  /\ Number(argv, "mp") <= 100

ListenerValid(argv) ==
  /\ Given(argv, "-l") /\ Arg(argv, "-l").ver # 0
  /\ Given(argv, "-p") /\ Arg(argv, "-p").length \in 1 .. 5 /\ Arg(argv, "-p").int \in 1 .. 65535

GatewayValid(argv, name, ver) == Given(argv, name) => Arg(argv, name).ver = ver

Accepts(argv) ==
  /\ WellFormed(argv)
  /\ ListenerValid(argv)
  /\ Given(argv, "-i") /\ Arg(argv, "-i").length >= 1
  /\ NumbersValid(argv)
  /\ BlackholeMetricValid(argv)
  /\ GatewayValid(argv, "-gw4", 4) /\ GatewayValid(argv, "-gw6", 6)

Parameters(argv) ==
  [number |-> [n \in DOMAIN Option |-> Number(argv, n)],
   ksMetric |-> BlackholeMetric(argv),
   saveFile |-> Given(argv, "-fr") /\ Arg(argv, "-fr").length > 0]
=============================================================================
