-------------------------- MODULE MC_SonicInstaller --------------------------
EXTENDS SonicInstaller

CONSTANTS i1, i2, i3

MC_Images == {i1, i2, i3}
\* No image name extends another.
MC_NamePrefix == {<<i, i>> : i \in MC_Images}
=============================================================================
