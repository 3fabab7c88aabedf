-------------------------------- MODULE Auth --------------------------------
(***************************************************************************)
(* get_auth_context() of the HTTP surfaces                                 *)
(* (src/src/yodmcp/security/auth.py).  A client is a record of the headers *)
(* it sends: Authorization, with the scheme Bearer or not, X-API-Key, and  *)
(* its tenant.  It may send both keys.                                     *)
(***************************************************************************)
CONSTANTS
  Keys,         \* the keys configured in YODMCP_API_KEYS
  Clients,      \* [auth, bearer, xkey, tenant]
  NoKey,        \* a header that is not sent, or empty
  KeyId         \* the first eight characters of each key; keys may share them

ASSUME AuthAssumption ==
  /\ NoKey \notin Keys
  /\ DOMAIN KeyId = Keys
  /\ \A c \in Clients : /\ c = [auth |-> c.auth, bearer |-> c.bearer,
                                xkey |-> c.xkey, tenant |-> c.tenant]
                        /\ c.bearer \in BOOLEAN /\ (c.bearer => c.auth # NoKey)

\* The key a client is authenticated by: X-API-Key counts unless Authorization is
\* a Bearer.
Provided(c) == IF c.bearer THEN c.auth ELSE c.xkey

\* No key configured: every request is accepted.  Otherwise one without a
\* configured key is answered 401.
Accepted(c) == Keys = {} \/ Provided(c) \in Keys

\* api_key_id, the name of an operator
ApiKeyId(c) == IF Keys = {} THEN "anonymous" ELSE KeyId[Provided(c)]

ApiKeyIds == {"anonymous"} \cup {KeyId[k] : k \in Keys}
=============================================================================
