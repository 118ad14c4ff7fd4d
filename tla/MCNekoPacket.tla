----------------------------- MODULE MCNekoPacket ---------------------------
EXTENDS NekoPacket

\* Two IPv4 addresses, so a reply's address can differ from the request's.
MCTargets == {"t1", "t2"}
====
