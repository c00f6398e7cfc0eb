----------------------------- MODULE MCLifecycle -----------------------------
(***************************************************************************)
(* The program's four workers, started with the mandatory parameters and   *)
(* up to two more pairs of arguments, and with what is left of it when the *)
(* last arguments are missing.                                             *)
(***************************************************************************)
EXTENDS Lifecycle

MCErrorCode == [w \in Senders |-> IF w = "dnsReceiver" THEN 1 ELSE 105]

Word(text) == [text |-> text, dash |-> FALSE, length |-> 2, int |-> 0, ver |-> 0]
Empty == [Word("") EXCEPT !.length = 0]
Name(text) == [Word(text) EXCEPT !.dash = TRUE]
Num(n) == [text |-> "number", dash |-> n < 0, length |-> 2, int |-> n, ver |-> 0]
IP(v) == [Word("address") EXCEPT !.ver = v, !.length = 7]

Mandatory == <<Name("-l"), IP(6), Name("-p"), Num(53), Name("-i"), Word("tun0")>>

Optional ==
  {<<Name("-" \o n), Num(v)>> : n \in {"rp", "bp"}, v \in {0, 1, 2, MaxInt}}
  \cup {<<Name("-" \o n), Num(v)>> : n \in {"mp", "ttl", "mi"}, v \in {-1, 0, 100, 101}}
  \cup {<<Name("-gw4"), IP(4)>>, <<Name("-gw4"), IP(6)>>, <<Name("-gw6"), IP(6)>>,
        <<Name("-fr"), Word("file")>>, <<Name("-fr"), Empty>>, <<Name("-p"), Name("-fr")>>,
        <<[Name("-") EXCEPT !.length = 1], Word("file")>>}

Complete == {Mandatory \o p \o q : p \in {<<>>} \cup Optional, q \in {<<>>} \cup Optional}

MCCommandLines == Complete \cup {SubSeq(a, 1, n) : a \in {p \o Mandatory : p \in Optional}, n \in 0 .. 7}
=============================================================================
