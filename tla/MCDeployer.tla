----------------------------- MODULE MCDeployer -----------------------------
EXTENDS Deployer

CONSTANTS a, b, x, y

\* A component that can be configured in two ways, and another one.
ThreeDescriptors ==
  { [name |-> a, config |-> x], [name |-> a, config |-> y], [name |-> b, config |-> x] }

\* Descriptors that are disabled or unusable come with an edit.
EnabledDirs == [Paths -> Descriptor \cup {None}]

TwoDescriptors == { [name |-> a, config |-> x], [name |-> b, config |-> x] }
==============================================================================
