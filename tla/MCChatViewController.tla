------------------------- MODULE MCChatViewController -------------------------
(***************************************************************************)
(* ChatViewController on the phone of Ana, who talks with Bia and with Cid. *)
(* Cid uses the phone too, one after the other.                             *)
(***************************************************************************)
EXTENDS ChatViewController, TLC

CONSTANTS ana, bia, cid

WithBia == [first |-> ana, second |-> bia]
WithCid == [first |-> cid, second |-> ana]
TwoChannels == {WithBia, WithCid}

\* Messages 1 and 3 are Bia's, 2 is Ana's answer, 4 is what Ana writes to Cid.
Senders == <<bia, ana, bia, ana>>
Sender == [m \in Message |-> Senders[m]]
Places == <<WithBia, WithBia, WithBia, WithCid>>
Where == [m \in Message |-> Places[m]]

Symmetry == Permutations(Screen)

===============================================================================
