----------------------------- MODULE MCSurface -----------------------------
\* Two roots of two directories; requests are explored on an empty disk.
EXTENDS Surface

Client(auth, bearer, xkey) == [auth |-> auth, bearer |-> bearer, xkey |-> xkey, tenant |-> "t"]

\* A long key in either header, a short one that comes with an Authorization of
\* another scheme, and no key.
SomeClients == {Client("long", TRUE, NoKey), Client(NoKey, FALSE, "long"),
                Client("basic", FALSE, "short"), Client(NoKey, FALSE, NoKey)}

\* For KeysAreLimited: one key with two Authorizations of other schemes.
TwoSchemes == {Client("basic", FALSE, "short"), Client("digest", FALSE, "short")}

FirstEight == [long |-> "lo...", short |-> "short"]

EmptyDisk == {[r \in 1 .. Roots |-> [d \in 1 .. Dirs |-> "none"]]}
=============================================================================
