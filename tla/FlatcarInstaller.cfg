\* Every family with vendor URLs built from hosts with and without a
\* substring that one of the substitution patterns matches.
CONSTANTS
    VendorHosts = {"mirror.local", "10.1.2.3", "install-server", "amd64.mirror", "boots", "tty0"}
SPECIFICATION Spec
INVARIANTS EditsConfined MatchesIntent
