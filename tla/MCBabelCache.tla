---------------------------- MODULE MCBabelCache ----------------------------
\* Two processes with two workers each share the file. The V8 of the two builds
\* differs, as after an update of jsre: each removes the file of the other.
EXTENDS BabelCache, TLC

CONSTANTS w1, w2, old, new

MCWorkers == {w1, w2}
MCBuilds == {old, new}
MCTagOf == (old :> "v8-68") @@ (new :> "v8-70")
=============================================================================
