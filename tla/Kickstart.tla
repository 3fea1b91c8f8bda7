----------------------------- MODULE Kickstart -----------------------------
(***************************************************************************)
(* The per-job parameters of the vmware kickstart file: the first disk     *)
(* (install --firstdisk=...) and the root password (rootpw --iscrypted).   *)
(* The installer code is not in this repository slice; its contract is     *)
(* stated by the tables of src/installers/vmware/kickstart_test.go and by  *)
(* the golden file testdata/ks_vmw_ahci.txt, and the operators below are   *)
(* that contract.  A string is abstracted to its text and the number of    *)
(* its leading characters kept: Str(s, n) is the first n characters of s.  *)
(***************************************************************************)
EXTENDS Naturals

VARIABLES
    job,  \* the job genKickstart renders: slug, boot-drive hint, custom data
    ks    \* the parameters rendered into the kickstart file, or NotRendered

vars == <<job, ks>>

Str(s, n) == [text |-> s, len |-> n]
Empty == Str("", 0)

\* the driver lists of the families with disk-controller requirements
\* (diskConfigs rows with an empty hint)
DiskDefaults ==
    [slug \in {"c3.medium.x86", "s3.xlarge.x86", "s3.xlarge.x86:s3.xlarge.x86.01",
               "s1.large.x86"} |->
        CASE slug = "s3.xlarge.x86:s3.xlarge.x86.01"
                  -> Str("KXG50ZNV256G_TOSHIBA,vmw_ahci", 29)
          [] slug = "s1.large.x86" -> Str("vmw_ahci", 8)
          [] OTHER -> Str("vmw_ahci,lsi_mr3,lsi_msgpt3", 27)]

\* a boot-drive hint keeps at most this many characters (n3.xlarge.x86 row)
HintMaxLen == 16

Truncate(h) == IF h.len > HintMaxLen THEN Str(h.text, HintMaxLen) ELSE h

\* firstDisk: a non-empty hint wins, else the family's driver list, else ""
FirstDisk(slug, hint) ==
    IF hint.len > 0 THEN Truncate(hint)
    ELSE IF slug \in DOMAIN DiskDefaults THEN DiskDefaults[slug]
    ELSE Empty

\* custom data as genKickstart reads it: absent, not a map, or a map whose
\* "rootpwcrypt" entry is absent, a string or another type
CustomData ==
    [kind: {"nil", "list"}] \cup
    [kind: {"map"}, has: BOOLEAN, isString: BOOLEAN, val: {Str("override", 8)}]

\* the crypted root password: a string rootpwcrypt overrides the instance's
RootPw(cd, password) ==
    IF cd.kind = "map" /\ cd.has /\ cd.isString THEN cd.val ELSE password

NotRendered == [firstdisk |-> Empty, rootpw |-> Empty, done |-> FALSE]

\* genKickstart: the parameter lines of the rendered file
GenKickstart ==
    ks' = [firstdisk |-> FirstDisk(job.slug, job.hint),
           rootpw |-> RootPw(job.customData, job.password), done |-> TRUE]
    /\ UNCHANGED job

-----------------------------------------------------------------------------
(* The jobs of the tests: every TestFirstDisk and diskConfigs row, each    *)
(* with every TestRootpw custom data.  want* is what the test expects.     *)

H == Str("hint", 4)
Toshiba == Str("KXG60ZNV256G TOSHIBA", 20)
Insecure == Str("insecure", 8)

DiskRows ==
    {[slug |-> s, hint |-> Empty, want |-> Empty] : s \in {"", "baremetal_5", "w1.large.x86"}}
    \cup
    {[slug |-> s, hint |-> H, want |-> H] :
        s \in {"", "baremetal_5", "c1.small.x86", "c1.xlarge.x86", "c2.medium.x86",
               "g2.large.x86", "m1.xlarge.x86", "m1.xlarge.x86:baremetal_2_04",
               "m2.xlarge.x86", "n2.xlarge.x86", "n2.xlarge.google", "s1.large.x86",
               "w1.large.x86", "t1.small.x86", "x1.small.x86", "arbitrary_name",
               "x2.xlarge.x86", "s3.xlarge.x86:s3.xlarge.x86.01"}}
    \cup
    {[slug |-> "n3.xlarge.x86", hint |-> Toshiba, want |-> Str("KXG60ZNV256G TOSHIBA", 16)],
     [slug |-> "c3.medium.x86", hint |-> Empty, want |-> Str("vmw_ahci,lsi_mr3,lsi_msgpt3", 27)],
     [slug |-> "s3.xlarge.x86", hint |-> Empty, want |-> Str("vmw_ahci,lsi_mr3,lsi_msgpt3", 27)],
     [slug |-> "s1.large.x86", hint |-> Empty, want |-> Str("vmw_ahci", 8)],
     [slug |-> "s3.xlarge.x86:s3.xlarge.x86.01", hint |-> Empty,
      want |-> Str("KXG50ZNV256G_TOSHIBA,vmw_ahci", 29)]}

PwRows ==
    {[cd |-> [kind |-> "nil"], want |-> Insecure],
     [cd |-> [kind |-> "map", has |-> TRUE, isString |-> TRUE, val |-> Str("override", 8)],
      want |-> Str("override", 8)],
     [cd |-> [kind |-> "list"], want |-> Insecure],
     [cd |-> [kind |-> "map", has |-> TRUE, isString |-> FALSE, val |-> Str("override", 8)],
      want |-> Insecure]}

Jobs ==
    {[slug |-> d.slug, hint |-> d.hint, customData |-> p.cd, password |-> Insecure,
      wantDisk |-> d.want, wantPw |-> p.want] : d \in DiskRows, p \in PwRows}

Init ==
    /\ job \in Jobs
    /\ ks = NotRendered

\* genKickstart may be called any number of times for the same job
Next == GenKickstart

Spec == Init /\ [][Next]_vars

-----------------------------------------------------------------------------
TypeOK ==
    /\ job \in Jobs
    /\ ks.done \in BOOLEAN
    /\ ks.firstdisk.len \in Nat /\ ks.rootpw.len \in Nat

\* The spec (section 4.3) says a boot-drive hint "always wins verbatim":
\* a non-empty hint is the first disk exactly as given (firstDisk).
HintVerbatim ==
    ks.done /\ job.hint.len > 0 => ks.firstdisk = job.hint
=============================================================================
