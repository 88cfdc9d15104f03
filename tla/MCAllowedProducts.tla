-------------------------- MODULE MCAllowedProducts --------------------------
\* Small instances of AllowedProducts.
EXTENDS AllowedProducts, TLC

CONSTANTS s1, a, b

OneListed == {a}

==============================================================================
