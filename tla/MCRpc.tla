-------------------------------- MODULE MCRpc --------------------------------
(* Small instances of the requests over a session.                         *)
EXTENDS Rpc

\* One, two and three frames; messages whose frames can be mixed up.
MCPayloads == {<<0>>, <<0, 1>>, <<1, 0>>, <<1, 1>>, <<0, 1, 1, 0>>}

\* A checksum that tells all short payloads apart.
RECURSIVE MCCrc(_)
MCCrc(p) == IF p = <<>> THEN 1 ELSE 3 * MCCrc(Tail(p)) + Head(p)

=============================================================================
