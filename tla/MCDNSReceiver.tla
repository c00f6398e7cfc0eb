---------------------------- MODULE MCDNSReceiver ----------------------------
(***************************************************************************)
(* Instances of DNSReceiver for TLC: bytes of one bit, so that both bytes  *)
(* of a header count; an empty payload, one that is not a message, one     *)
(* without addresses and one with two, and an rdata that is none.          *)
(***************************************************************************)
EXTENDS DNSReceiver

Record(type, rdata) == [type |-> type, rdata |-> rdata]

Bad == <<0>>
Name == <<1, 0>>
TwoAddresses == <<1, 0, 1>>

MCPayloads == {<<>>, Bad, Name, TwoAddresses}

MCDecode == [p \in {Name, TwoAddresses} |->
  IF p = Name THEN <<Record(5, <<1>>)>>
              ELSE <<Record(1, <<1>>), Record(1, <<1, 0>>), Record(28, <<1, 0, 1>>)>>]
=============================================================================
