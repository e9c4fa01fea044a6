---------------------------- MODULE MCModelCache ----------------------------
\* Instances of ModelCache.
EXTENDS ModelCache, TLC

CONSTANTS flux, t5, vae, lora

Models == {flux, t5, vae}
Patches == {lora}
Bases == (flux :> 3 @@ t5 :> 2 @@ vae :> 1)
Peaks == (flux :> 4 @@ t5 :> 3 @@ vae :> 2)
Prefetch == {flux, t5}

RunOf(m, peak, patches) == [model |-> m, peak |-> peak, patches |-> patches]

\* A transformer with and without a patch, and two other models.
Tasks == {RunOf(flux, 4, {}), RunOf(flux, 4, {lora}), RunOf(t5, 3, {}), RunOf(vae, 2, {})}

PreloadTwo == <<t5, flux>>
=============================================================================
