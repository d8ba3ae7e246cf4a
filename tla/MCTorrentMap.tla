----------------------------- MODULE MCTorrentMap -----------------------------
(* Two requests, two torrents, leases of two ticks and two clients.          *)
EXTENDS TorrentMap
==============================================================================
