--------------------------- MODULE MCFortranUnits ---------------------------
EXTENDS FortranUnits, TLC

\* Unit 1 is a regular unit; units 2 and 3 are two units on standard output:
\* unit 6, and a unit that assign -D connects to it.
MCDefault == 1 :> "a" @@ 2 :> "stdout" @@ 3 :> "stdout"

S(o, u, f, e) == [op |-> o, unit |-> u, file |-> f, fault |-> e]
Plain(o, u) == S(o, u, NoFile, "none")
Two == CHOOSE T \in SUBSET Thread : Cardinality(T) = 2
Unused == [u \in {} |-> NoFile]

\* Two units and two regular files: implicit opens, reopens, clashes.
Regular == [threads |-> Thread, conn |-> Unused, stmts |-> {
    Plain("write", 1), S("open", 1, "b", "none"), S("open", 2, "b", "none"),
    Plain("close", 1), Plain("close", 2), S("inquire_file", 1, "b", "none")}]

\* One unit, with every kind of failure.
Failures == [threads |-> Two, conn |-> Unused, stmts |-> {
    Plain("flush", 1), S("write", 1, NoFile, "spec"), S("write", 1, NoFile, "name"),
    S("write", 1, NoFile, "stat"), S("write", 1, NoFile, "late"),
    S("open", 1, "b", "spec"), S("open", 1, "b", "fclose"), S("open", 1, "b", "stat"),
    S("open", 1, "b", "late"), S("open", 1, "b", "none"), S("close", 1, NoFile, "spec")}]

\* Two units on standard output.
Standard == [threads |-> Thread, conn |-> Unused, stmts |-> {
    Plain("write", 2), Plain("write", 3), Plain("flush", 2), Plain("open", 2),
    Plain("close", 2), S("inquire_file", 1, "a", "none")}]

\* Nothing is opened or closed: INQUIRE by unit is safe.
Inquiries == [threads |-> Thread, conn |-> 1 :> "a" @@ 2 :> "stdout" @@ 3 :> "stdout", stmts |-> {
    Plain("inquire_unit", 1), Plain("inquire_unit", 2), Plain("write", 1), Plain("write", 3)}]

\* AQ and WA files next to Fortran I/O on the same unit.
Auxiliary == [threads |-> Thread, conn |-> Unused, stmts |-> {
    S("aqopen", 1, "b", "none"), Plain("aqclose", 1), Plain("write", 1), Plain("close", 1),
    S("open", 1, "b", "none"), Plain("flush", 1)}]

MCPrograms == {Regular, Failures, Standard, Inquiries, Auxiliary}

\* A unit that one thread inquires about and another closes.
InquiryPrograms == {[threads |-> Thread, conn |-> 1 :> "a",
    stmts |-> {Plain("inquire_unit", 1), Plain("close", 1)}]}

\* Three units on standard output: one is opened anew, to a regular file,
\* while the threads write to the others.
StandardPrograms == {[threads |-> Thread,
    conn |-> 1 :> "stdout" @@ 2 :> "stdout" @@ 3 :> "stdout",
    stmts |-> {S("open", 2, "b", "none"), Plain("write", 1), Plain("write", 3)}]}
=============================================================================
