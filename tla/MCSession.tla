------------------------------ MODULE MCSession ------------------------------
(* A small instance of Session for TLC. *)
EXTENDS Session

MCIds == {<<7, 9>>}

\* Two torrents whose names differ in the lower bits of their last byte, one of
\* them with a negative byte.
h1 == <<3, -1>>
h2 == <<3, -2>>

Datagram(length, action, tid, hashes) ==
    [len |-> length,
     data |-> [f \in Fields |-> CASE f = ConnField -> IF action = CONNECT THEN Swap(BT_PROTOCOL_ID) ELSE <<9, 7>>
                                 [] f = ActionField -> Swap(action)
                                 [] f = TidField -> tid
                                 [] OTHER -> IF f - 3 <= Len(hashes) THEN hashes[f - 3] ELSE h1]]

\* The announce ends before its last block, the second scrape has one hash too
\* many, and the error ends within its action.
MCDatagrams == {
    Datagram(16, CONNECT, <<1, 2>>, <<>>),
    Datagram(80, ANNOUNCE, <<3, 4>>, <<h2, h1, h2, h1>>),
    Datagram(56, SCRAPE, <<6, 7>>, <<h1, h2>>),
    Datagram(76, SCRAPE, <<6, 7>>, <<h2, h1, h2>>),
    Datagram(10, ERROR, <<8, 8>>, <<>>)}
=============================================================================
