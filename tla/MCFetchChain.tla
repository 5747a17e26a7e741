--------------------------- MODULE MCFetchChain ---------------------------
(***************************************************************************)
(* Instances of FetchChain for TLC.                                        *)
(***************************************************************************)
EXTENDS FetchChain

Args(pinned, min, max, method, body, attempts) ==
  [pinned |-> pinned, min |-> min, max |-> max, method |-> method, body |-> body,
   attempts |-> attempts]

\* The default range, every pinned tier, a range cut off at either end, a body, a method
\* that is not GET, and arguments that contradict one another; three attempts on one tier.
MCCalls ==
  {Args(Httpx, NoTier, NoTier, "GET", "none", 3)}
  \cup UNION {
    {Args(t, NoTier, NoTier, "GET", "none", n) : t \in {NoTier} \cup TierOrder}
    \cup {Args(NoTier, Curl, NoTier, "POST", "json", n),
          Args(NoTier, Curl, Curl, "GET", "none", n),
          Args(NoTier, NoTier, Httpx, "HEAD", "none", n),
          Args(NoTier, Patchright, Httpx, "GET", "none", n),
          Args(Curl, Httpx, NoTier, "GET", "none", n),
          Args(Httpx, NoTier, NoTier, "POST", "both", n)} : n \in 0..2}

\* The default policy, to which a caller has added a success and a terminal status: a listed
\* status and one that is not of each.
MCRetryOn == {429, 500, 502, 503, 504} \cup {202, 404}

=============================================================================
