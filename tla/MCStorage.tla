----------------------------- MODULE MCStorage -----------------------------
EXTENDS Storage

Ini(token, tier, nand) == [token |-> token, tier |-> tier, allow_nand_write |-> nand]
MCUserFiles ==
    {Ini("", "control", FALSE), Ini("mine", "invasive", TRUE), Ini("mine", "?", FALSE)}

\* No action tells the files of the save apart.
MCSymmetry == Permutations(SaveFiles)
=============================================================================
