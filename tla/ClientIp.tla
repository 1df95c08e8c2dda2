------------------------------ MODULE ClientIp ------------------------------
(***************************************************************************)
(* netutil.py: the address of the client behind a chain of proxies, from   *)
(* the socket's peer and the hops of X-Forwarded-For.  An address is itself *)
(* or, when it cannot be parsed, one that no network contains; nets is the *)
(* set of addresses that FILEENGINE_TRUSTED_PROXIES covers.                *)
(*                                                                         *)
(* Operators named X_Remark are deviations of the X that follows them.     *)
(***************************************************************************)
EXTENDS Integers, Sequences

Outside(nets, hops) == {i \in DOMAIN hops : hops[i] \notin nets}

RightMost(S) == CHOOSE i \in S : \A j \in S : j <= i

ResolveClientIp_LeftMost(nets, peer, hops) ==
  IF hops # <<>> /\ (nets = {} \/ peer \in nets) THEN hops[1] ELSE peer

\* Without networks the first hop is believed.  With them, nobody but a trusted
\* peer, and of what it says the right-most hop that is not trusted itself.
ResolveClientIp(nets, peer, hops) ==
  CASE nets = {} /\ hops # <<>>                              -> hops[1]
    [] nets # {} /\ peer \in nets /\ Outside(nets, hops) # {} -> hops[RightMost(Outside(nets, hops))]
    [] OTHER                                                 -> peer
-----------------------------------------------------------------------------
(* How a request gets here: the client may send a header of its own, and each *)
(* proxy appends the address that it was spoken to from (external).        *)

Peer(client, proxies) ==
  IF proxies = <<>> THEN client ELSE proxies[Len(proxies)]

Hops(sent, client, proxies) ==
  IF proxies = <<>> THEN sent
  ELSE (sent \o <<client>>) \o SubSeq(proxies, 1, Len(proxies) - 1)
=============================================================================
