--------------------------- MODULE MCEnumRegistry ---------------------------
EXTENDS EnumRegistry

\* cubemap_faces: invalid(-1), pos_x(0) .. neg_z(5), max(6).
MCDeclared == <<-1, 0, 1, 2, 3, 4, 5, 6>>
\* A declared value, the invalid value and one that is not declared.
MCCastArgs == {-1, 2, 7}
=============================================================================
