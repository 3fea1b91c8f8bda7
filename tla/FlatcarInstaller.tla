-------------------------- MODULE FlatcarInstaller --------------------------
(***************************************************************************)
(* The ExecStart lines of the flatcar install.service unit, per hardware   *)
(* family.  The installer code is not in this repository slice; its       *)
(* contract is the table of src/installers/flatcar/installer_test.go: the  *)
(* base Exec lines, and for two families the lines derived from them by    *)
(* replacer, which joins the lines, applies each (old, new) pair with      *)
(* strings.ReplaceAll in turn and splits the result again.                 *)
(*                                                                         *)
(* Strings are TLA+ strings, which TLC treats as sequences of characters,  *)
(* so a pattern matches wherever its characters occur, as in Go.  The one  *)
(* input that varies is conf.OsieVendorServicesURL, which the installer    *)
(* line embeds and the deployment sets from its environment.               *)
(***************************************************************************)
EXTENDS Naturals, Sequences

SeqExt == INSTANCE SequencesExt

CONSTANTS
    VendorHosts   \* host names a vendor-services URL may carry

VARIABLES
    typ,    \* the hardware family (plan slug) the script is made for
    url,    \* conf.OsieVendorServicesURL
    lines   \* the script's lines, or NotRendered

vars == <<typ, url, lines>>

\* the values conf.OsieVendorServicesURL takes in the model
VendorURLs ==
    {s \o h \o p : s \in {"http://", "https://"}, h \in VendorHosts,
                   p \in {"", ":8080", "/vendor"}}

NotRendered == <<>>

\* replacer panics on an odd number of replacement strings
Panicked == <<"panic">>

-----------------------------------------------------------------------------
(* The Go string functions replacer calls.                                 *)

\* the positions at which old starts in s (strings.Index finds the least)
Matches(s, old) ==
    {i \in 1..(Len(s) - Len(old) + 1) : SubSeq(s, i, i + Len(old) - 1) = old}

FirstMatch(s, old) == SeqExt!Min(Matches(s, old))

\* strings.ReplaceAll: every non-overlapping match, leftmost first; an
\* empty old matches before every character and at the end
RECURSIVE ReplaceAll(_, _, _)
ReplaceAll(s, old, new) ==
    IF old = "" THEN
        IF s = "" THEN new ELSE new \o SubSeq(s, 1, 1) \o ReplaceAll(Tail(s), old, new)
    ELSE IF Matches(s, old) = {} THEN s
    ELSE LET i == FirstMatch(s, old)
         IN SubSeq(s, 1, i - 1) \o new
              \o ReplaceAll(SubSeq(s, i + Len(old), Len(s)), old, new)

\* strings.Join
Join(l, sep) ==
    IF l = <<>> THEN "" ELSE SeqExt!FoldLeft(LAMBDA acc, x : acc \o sep \o x, Head(l), Tail(l))

\* strings.Split with a non-empty separator
RECURSIVE Split(_, _)
Split(s, sep) ==
    IF Matches(s, sep) = {} THEN <<s>>
    ELSE LET i == FirstMatch(s, sep)
         IN <<SubSeq(s, 1, i - 1)>> \o Split(SubSeq(s, i + Len(sep), Len(s)), sep)

-----------------------------------------------------------------------------
(* The test's table.                                                       *)

\* the install steps of every flatcar family
Exec(vendorURL) ==
    << "ExecStart=/usr/bin/curl --retry 10 -H \"Content-Type: application/json\" -X POST -d '{\"type\":\"provisioning.106\"}' ${phone_home_url}",
       "ExecStart=/usr/bin/flatcar-install -V current -C alpha -b " \o vendorURL \o "/flatcar/amd64-usr/alpha -o packet -s",
       "ExecStart=/usr/bin/udevadm settle",
       "ExecStart=/usr/bin/mkdir -p /oemmnt",
       "ExecStart=/usr/bin/mount /dev/disk/by-label/OEM /oemmnt",
       "ExecStart=/usr/bin/bash -c \"/usr/bin/echo \\\"set linux_console=\\\\\\\"console=tty0 console=ttyS1,115200n8\\\\\\\"\\\" >> /oemmnt/grub.cfg\"",
       "ExecStart=/usr/bin/curl -H \"Content-Type: application/json\" -X POST -d '{\"type\":\"provisioning.109\"}' ${phone_home_url}" >>

\* (mutant) each pair applied with its two strings swapped
ReplacerSwapped(l, replacements) ==
    IF Len(replacements) % 2 # 0 THEN Panicked
    ELSE Split(SeqExt!FoldLeft(LAMBDA script, i : ReplaceAll(script, replacements[2 * i], replacements[2 * i - 1]),
                        Join(l, "\n"), [i \in 1..(Len(replacements) \div 2) |-> i]), "\n")

\* (mutant) the lines joined with a space instead of a newline
ReplacerJoinSpace(l, replacements) ==
    IF Len(replacements) % 2 # 0 THEN Panicked
    ELSE Split(SeqExt!FoldLeft(LAMBDA script, i : ReplaceAll(script, replacements[2 * i - 1], replacements[2 * i]),
                        Join(l, " "), [i \in 1..(Len(replacements) \div 2) |-> i]), "\n")

\* replacer: the pairs are applied one after the other, in argument order
Replacer(l, replacements) ==
    IF Len(replacements) % 2 # 0 THEN Panicked
    ELSE Split(SeqExt!FoldLeft(LAMBDA script, i : ReplaceAll(script, replacements[2 * i - 1], replacements[2 * i]),
                        Join(l, "\n"), [i \in 1..(Len(replacements) \div 2) |-> i]), "\n")

\* script: the expected ExecStart lines of each family
Script(t, vendorURL) ==
    CASE t = "c3.small.x86"  -> Exec(vendorURL)
      [] t = "s3.xlarge.x86" -> Replacer(Exec(vendorURL), <<"-s", "-s -e 259">>)
      [] t = "c3.large.arm"  ->
            Replacer(Exec(vendorURL), << " -o packet", "",
                                         "tty0 console=ttyS1,115200n8", "ttyAMA0,115200",
                                         "amd64", "arm64" >>)

Families == {"c3.small.x86", "s3.xlarge.x86", "c3.large.arm"}

Init ==
    /\ typ \in Families
    /\ url \in VendorURLs
    /\ lines = NotRendered

\* TestInstaller: the family's script is built (and may be built again)
Render ==
    /\ lines' = Script(typ, url)
    /\ UNCHANGED <<typ, url>>

Next == Render

Spec == Init /\ [][Next]_vars

-----------------------------------------------------------------------------
(* What the per-family substitution is for (spec section 4.5): the         *)
(* families differ only in the architecture string and the oem flag of     *)
(* the installer line, an extra -e flag after -s, and the console device   *)
(* of the grub line, and the substitution must not match by accident.     *)

FamilyEdits ==
    [t \in Families |->
        CASE t = "c3.large.arm" ->
                [arch |-> "arm64", oem |-> "", extra |-> "",
                 console |-> "ttyAMA0,115200"]
          [] OTHER ->
                [arch |-> "amd64", oem |-> " -o packet",
                 extra |-> IF t = "s3.xlarge.x86" THEN " -e 259" ELSE "",
                 console |-> "tty0 console=ttyS1,115200n8"]]

\* the installer line the family needs, built field by field
InstallLine(t, vendorURL) ==
    "ExecStart=/usr/bin/flatcar-install -V current -C alpha -b " \o vendorURL
        \o "/flatcar/" \o FamilyEdits[t].arch \o "-usr/alpha" \o FamilyEdits[t].oem
        \o " -s" \o FamilyEdits[t].extra

ConsoleLine(t) ==
    "ExecStart=/usr/bin/bash -c \"/usr/bin/echo \\\"set linux_console=\\\\\\\"console="
        \o FamilyEdits[t].console \o "\\\\\\\"\\\" >> /oemmnt/grub.cfg\""

Intended(t, vendorURL) ==
    [Exec(vendorURL) EXCEPT ![2] = InstallLine(t, vendorURL), ![6] = ConsoleLine(t)]

\* the substitution patterns of every family
Patterns == {"-s", " -o packet", "tty0 console=ttyS1,115200n8", "amd64"}

\* a URL in which no substitution pattern occurs
PlainURL(vendorURL) == \A p \in Patterns : Matches(vendorURL, p) = {}

-----------------------------------------------------------------------------
TypeOK ==
    /\ typ \in Families
    /\ url \in VendorURLs
    /\ lines \in Seq(STRING)

\* Whatever the vendor URL, replacer keeps the script's line structure: the
\* same number of lines, and every line other than the installer line and
\* the grub console line exactly as in Exec (strings.Join, the ReplaceAll
\* loop and strings.Split of replacer).
EditsConfined ==
    lines # NotRendered =>
        /\ Len(lines) = Len(Exec(url))
        /\ \A i \in DOMAIN lines \ {2, 6} : lines[i] = Exec(url)[i]

\* For a vendor URL holding no pattern, the sequential ReplaceAll calls
\* produce exactly the lines the family needs: no pair matches text other
\* than its target, and no later pair rewrites what an earlier one
\* inserted (the loop at installer_test.go:77-79 and the table's order).
MatchesIntent ==
    lines # NotRendered /\ PlainURL(url) => lines = Intended(typ, url)

\* Spec section 4.5 says the substitution must avoid accidental partial
\* matches: the configured vendor URL reaches the installer line
\* unchanged, for every family (ReplaceAll over the whole script).
URLKept ==
    lines # NotRendered => lines = Intended(typ, url)
=============================================================================
