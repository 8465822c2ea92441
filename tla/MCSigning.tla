------------------------------- MODULE MCSigning -------------------------------
(* The small instance of Signing.  The domains and types are the source's bytes.  A field  *)
(* of one message can be read as the end of the one before and the start of the next: 257  *)
(* is the counter 1 moved by a byte, and a nonce, text or id may lose or gain one.         *)
EXTENDS Signing

Zeros(n) == [i \in 1..n |-> 0]

MCIids == {<<97>>, <<97, 97>>}
MCCounters == {1, 257}
MCNonces == {Zeros(12), <<1>> \o Zeros(11)}
MCTexts == {<<0>>, <<0, 0>>}
MCTags == {Zeros(16)}
MCKeys == {<<1>> \o Zeros(31), <<2>> \o Zeros(31)}
MCXKeys == {<<1>> \o Zeros(31), <<3>> \o Zeros(31)}
MCChallenges == {<<48>>, <<97>>}
MCEnvelopeDomain ==
    <<116, 114, 117, 101, 45, 115, 105, 103, 104, 116, 47, 109, 101, 115, 115, 97, 103, 101,
      45, 101, 110, 118, 101, 108, 111, 112, 101, 47, 118, 50>>
MCShareDomain ==
    <<116, 114, 117, 101, 45, 115, 105, 103, 104, 116, 45, 115, 104, 97, 114, 101, 45, 118,
      49, 47>>
MCEdType == <<101, 100, 50, 53, 53, 49, 57>>
MCXType == <<120, 50, 53, 53, 49, 57>>
=============================================================================
