----------------------------- MODULE Enrollment -----------------------------
(***************************************************************************)
(* EnsureEnrollment, which spends a one-time token and writes three files, *)
(* and NewClient, which loads them.  The files are on a volume that        *)
(* outlives a process and that several processes share if the chart is     *)
(* told to run more than one.                                              *)
(***************************************************************************)
EXTENDS Deployment

CONSTANTS
    Tokens,     \* enrollment tokens an operator can issue
    Missing,    \* no file, no credentials
    Torn        \* a file truncated or written in part

Files == {"cert", "key", "ca"}

ASSUME TokensAssumption == Missing \notin Tokens /\ Torn \notin Tokens /\ Missing # Torn

VARIABLES
    creds,      \* the enrollment whose credentials each process has in memory
    file,       \* what each file holds: the enrollment it is from
    offered,    \* the token in the secret
    spent,      \* tokens the controller has accepted
    cut         \* history: credentials were lost, or another token came during an enrollment

enrollment == <<creds, file, offered, spent, cut>>

EnrollmentInit ==
    /\ creds = [r \in Replicas |-> Missing]
    /\ file = [f \in Files |-> Missing]
    /\ offered \in Tokens
    /\ spent = {}
    /\ cut = FALSE

\* An error ends the process, and what it had in memory is gone.
Exit(r) == Proceed(r, "down") /\ creds' = [creds EXCEPT ![r] = Missing]

---------------------------------------------------------------------------
(* EnsureEnrollment, before the migrations                                 *)

AllExist == \A f \in Files : file[f] # Missing

\* Variant: the certificate alone decides.
CertFileExists(r) ==
    /\ stage[r] = "stat"
    /\ Proceed(r, IF file["cert"] # Missing THEN "ensure" ELSE "enroll")
    /\ UNCHANGED <<enrollment, faults>>

\* Files never disappear, so that looking at all three at once sees the same.
certFilesExist(r) ==
    /\ stage[r] = "stat"
    /\ Proceed(r, IF AllExist THEN "ensure" ELSE "enroll")
    /\ UNCHANGED <<enrollment, faults>>

enrollIdentity(r) ==
    /\ stage[r] = "enroll"
    /\ \/ /\ NoFault /\ offered \notin spent
          /\ spent' = spent \cup {offered}
          /\ creds' = [creds EXCEPT ![r] = offered]
          /\ Proceed(r, "open cert")
          /\ UNCHANGED cut
       \/ NoFault /\ offered \in spent /\ Exit(r) /\ UNCHANGED <<spent, cut>>
       \/ Fault("refused") /\ Exit(r) /\ UNCHANGED <<spent, cut>>
       \/ /\ Fault("lost") /\ offered \notin spent /\ Exit(r)
          /\ spent' = spent \cup {offered} /\ cut' = TRUE
    /\ UNCHANGED <<file, offered>>

\* Two processes that fill one file at a time can leave a mixture.
Fill(r, f, filling) ==
    \E content \in {creds[r]} \cup
           (IF \E s \in Replicas \ {r} : stage[s] = filling THEN {Torn} ELSE {}) :
        file' = [file EXCEPT ![f] = content]

WriteFile(r, f, opening, filling, next) ==
    \/ /\ stage[r] = opening
       /\ \/ /\ NoFault /\ file' = [file EXCEPT ![f] = Torn]
             /\ Proceed(r, filling) /\ UNCHANGED <<creds, cut>>
          \/ Fault("refused") /\ Exit(r) /\ cut' = TRUE /\ UNCHANGED file
    \/ /\ stage[r] = filling
       /\ \/ /\ NoFault /\ Fill(r, f, filling) /\ Proceed(r, next) /\ UNCHANGED cut
             /\ creds' = IF next = "ensure" THEN [creds EXCEPT ![r] = Missing] ELSE creds
          \/ Fault("refused") /\ Exit(r) /\ cut' = TRUE /\ UNCHANGED file

\* Variant: the bundle of the controller's authorities is not stored.
WriteWithoutCA(r) ==
    /\ \/ WriteFile(r, "cert", "open cert", "fill cert", "open key")
       \/ WriteFile(r, "key", "open key", "fill key", "ensure")
    /\ UNCHANGED <<offered, spent>>

writePEMFile(r) ==
    /\ \/ WriteFile(r, "cert", "open cert", "fill cert", "open key")
       \/ WriteFile(r, "key", "open key", "fill key", "open ca")
       \/ WriteFile(r, "ca", "open ca", "fill ca", "ensure")
    /\ UNCHANGED <<offered, spent>>

---------------------------------------------------------------------------
(* NewClient, after the migrations                                         *)

\* A key pair is loaded only if both files are whole and from one enrollment.
loadClientCredentials(r) ==
    /\ stage[r] = "load"
    /\ IF file["cert"] \in Tokens /\ file["key"] = file["cert"]
       THEN creds' = [creds EXCEPT ![r] = file["cert"]] /\ Proceed(r, "load ca")
       ELSE Exit(r)
    /\ UNCHANGED <<file, offered, spent, cut, faults>>

\* Variant: any file will do.
LoadAnyCA(r) ==
    /\ stage[r] = "load ca"
    /\ Proceed(r, "serving")
    /\ UNCHANGED <<enrollment, faults>>

\* The client then logs in with the controller, which can fail.
loadCAPool(r) ==
    /\ stage[r] = "load ca"
    /\ \/ /\ NoFault
          /\ IF file["ca"] \in Tokens THEN Proceed(r, "serving") /\ UNCHANGED creds ELSE Exit(r)
       \/ Fault("refused") /\ Exit(r)
    /\ UNCHANGED <<file, offered, spent, cut>>

---------------------------------------------------------------------------
(* The operator                                                            *)

\* Another token is issued, also while a process is past its look at the files.
Reissue ==
    /\ \E t \in Tokens \ (spent \cup {offered}) : offered' = t
    /\ cut' = (cut \/ \E r \in Replicas : stage[r] \in Writing \cup {"enroll"})
    /\ UNCHANGED <<deployment, creds, file, spent>>

---------------------------------------------------------------------------
(* What the files are good for                                             *)

Usable ==
    /\ file["cert"] \in Tokens /\ file["key"] = file["cert"] /\ file["ca"] \in Tokens

\* The files are of no use, and nobody writes them or can enroll again.
Stuck ==
    /\ ~Usable /\ \A r \in Replicas : stage[r] \notin Writing
    /\ offered \in spent \/ AllExist
=============================================================================
