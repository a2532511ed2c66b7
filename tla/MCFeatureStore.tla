-------------------------- MODULE MCFeatureStore --------------------------
(* One or two loaders; two users and one merchant over two days, in      *)
(* batches of two rows.                                                    *)
EXTENDS FeatureStore, TLC

CONSTANTS l1, l2, u1, u2, m1

OneLoader  == {l1}
TwoLoaders == {l1, l2}
TwoUsers   == {u1, u2}
OneMerchant == {m1}

Interchangeable == Permutations(Loaders) \cup Permutations(Users)
=============================================================================
