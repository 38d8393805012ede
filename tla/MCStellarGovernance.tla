------------------------ MODULE MCStellarGovernance ------------------------
(* An instance of StellarGovernance for TLC: sets of three guardians, rotated *)
(* at most twice, VAAs with enough, too few and repeated signatures that may  *)
(* arrive in any order, and entries whose TTL lapses.                         *)
EXTENDS StellarGovernance

CONSTANTS k1, k2, k3, k4, s1, s2

\* The guardian sets that exist off chain, by index.
Set(i) == IF i % 2 = 0 THEN <<k1, k2, k3>> ELSE <<k1, k2, k4>>

Sig(g, k) == [guardian_index |-> g, recovered |-> k]

All(keys) == <<Sig(0, keys[1]), Sig(1, keys[2]), Sig(2, keys[3])>>

\* All guardians of the set; one too few; the first one three times.
SignatureLists(keys) ==
    {All(keys), <<Sig(0, keys[1]), Sig(1, keys[2])>>,
     <<Sig(0, keys[1]), Sig(0, keys[1]), Sig(0, keys[1])>>}

Vaa(sigs, i, emitter, n, payload) ==
    [guardian_set_index |-> i, signatures |-> sigs, emitter |-> <<1, emitter>>,
     sequence |-> n, payload |-> payload]

\* The payload with every list of signatures, of its own set and of the other one.
Signed(indices, emitter, n, payload) ==
    {Vaa(sigs, i, emitter, n, payload) :
        i \in indices, sigs \in SignatureLists(Set(0)) \cup SignatureLists(Set(1))}

Whole(i, n, payload) == Vaa(All(Set(i)), i, "pyth", n, payload)

SetSigner(k, e, chain) ==
    [module |-> "StellarExecutor", action |-> "call", target_chain |-> chain,
     executor |-> "executor", target |-> "lazer",
     function |-> "update_trusted_signer", pubkey |-> k, expires_at |-> e]

Upgrade(action, target) ==
    [module |-> "StellarExecutor", action |-> action, target_chain |-> 7,
     executor |-> "executor", target |-> target, function |-> "upgrade", wasm |-> "new"]

Rotation(i, chain) == [module |-> "Core", action |-> "upgrade", target_chain |-> chain,
                       new_index |-> i, guardians |-> Set(i)]

\* The first set signs a successor to set 1 that set 1 never signed.
Competing == [Rotation(2, 0) EXCEPT !.guardians = <<k2, k3, k4>>]

\* A key is trusted, removed and trusted again for longer; another one is
\* trusted; one call has no receiver and one is for another chain.
MCVaas ==
    Signed(0..2, "core", 0, Rotation(1, 0)) \cup Signed(0..2, "core", 0, Rotation(2, 7))
    \cup Signed({0}, "core", 0, Competing)
    \cup Signed({0}, "pyth", 1, SetSigner(s1, 2, 7))
    \cup {Whole(0, 2, SetSigner(s1, 0, 7)), Whole(1, 3, SetSigner(s1, 3, 7)),
          Whole(0, 3, SetSigner(s2, 1, 7)), Whole(1, 3, SetSigner(s2, 3, 8)),
          Whole(0, 4, Upgrade("call", "lazer")), Whole(1, 4, Upgrade("call", "nowhere")),
          Whole(2, 5, Upgrade("upgrade_executor", "executor"))}

MCInitialGuardianSet == Set(0)
MCInitialSigners == [k \in {s2} |-> 2]
MCOwnerEmitter == <<1, "pyth">>
MCUpgradeEmitter == <<1, "core">>
=============================================================================
