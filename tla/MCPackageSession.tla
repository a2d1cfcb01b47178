-------------------------- MODULE MCPackageSession --------------------------
EXTENDS PackageSession

ThreeSlices == 0 .. 2
=============================================================================
