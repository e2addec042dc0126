--------------------------- MODULE Authentication ---------------------------
(***************************************************************************)
(* A policy document on its way into force, and the principal a request is *)
(* given under the policy: auth/context.py and auth/token_verifier.py.     *)
(*                                                                         *)
(* A document is validated stage after stage; accepted, it is compiled and *)
(* comes into force at once, and may be exported, edited, or replaced by   *)
(* another one at any time, also between the reads of a request.  What a   *)
(* token says is taken as verified: signature, issuer and expiry are the   *)
(* JWT library's.                                                          *)
(***************************************************************************)
EXTENDS PolicyDocument

CONSTANTS Documents,
          Settings,     \* the AUTH_... settings of config.py
          Credentials,  \* [kind, subject, roles], kind "none", "static" or "jwt"
          NoPolicy, NoOne,
          MaxDocuments  \* bound: documents submitted

ASSUME AuthenticationAssumption ==
    /\ \A s \in Settings : s.mode \in {"disabled", "static", "jwt"} /\ s.stdio \in BOOLEAN
    /\ \A c \in Credentials : c.kind \in {"none", "static", "jwt"}
    /\ MaxDocuments \in Nat \ {0}

\* What is read from a document is a document: Malformed, or of well-formed or Malformed parts.
ASSUME DocumentsAssumption ==
    \A d \in Documents \ {Malformed} :
        /\ d.default \in Written \cup {Malformed}
        /\ d.roles # Malformed =>
              /\ DOMAIN d.roles \subseteq Written
              /\ d.roles \in [DOMAIN d.roles -> RoleObjects({Malformed})]
              /\ Malformed \notin [DOMAIN d.roles -> RoleObjects({})]
        /\ d.principals # Malformed =>
              /\ d.principals \in [DOMAIN d.principals -> PrincipalObjects({Malformed})]
              /\ Malformed \notin [DOMAIN d.principals -> PrincipalObjects({})]
        /\ d.acl # Malformed => d.acl \in Seq(RuleObjects({Malformed}))
        /\ d.rows # Malformed => d.rows \in Seq(RowObjects({Malformed}))
        /\ d.roles # Malformed /\ d.principals # Malformed =>
              Malformed \notin Objects(DOMAIN d.roles, DOMAIN d.principals)

VARIABLES document, step,    \* step: the stage that comes next, or "refused", "installed"
          errors,            \* the report
          active,            \* the compiled policy in force
          exported,          \* is the document an export of it
          submitted,
          settings, credential,
          login,             \* "none", "verified", "pinned", "resolved", "refused"
          pinned,            \* the policy of the request's context
          who,               \* the principal
          stable             \* history: was the pinned policy in force when it was resolved

documentVars == <<document, step, errors, active, exported, submitted>>
loginVars == <<settings, credential, login, pinned, who, stable>>

DocumentInit ==
    /\ document \in Documents
    /\ step = "shape"
    /\ errors = {}
    /\ active = NoPolicy
    /\ exported = FALSE
    /\ submitted = 1
    /\ settings \in Settings
    /\ credential \in Credentials
    /\ login = "none"
    /\ pinned = NoPolicy
    /\ who = NoOne
    /\ stable = TRUE

-----------------------------------------------------------------------------
(* validate_policy_document(), compile_policy() *)

Stage(now, found, next) ==
    /\ step = now
    /\ errors' = found
    /\ step' = IF found = {} THEN next ELSE "refused"
    /\ UNCHANGED <<document, active, exported, submitted, loginVars>>

CheckShape == step = "shape" /\ Stage("shape", ShapeErrors(document), "schema")
CheckSchema == step = "schema" /\ Stage("schema", SchemaErrors(document), "names")
CheckNames == step = "names" /\ Stage("names", NameErrors(document), "meaning")
CheckMeaning ==
    /\ step = "meaning"
    /\ LET n == Normalize(document) IN
       Stage("meaning", SemanticErrors(n) \cup SecurityErrors(n), "accepted")

Compiled(d) == Build(Normalize(d))

Install ==
    /\ step = "accepted"
    /\ active' = Compiled(document)
    /\ step' = "installed"
    /\ UNCHANGED <<document, errors, exported, submitted, loginVars>>

Submit(d, isExport) ==
    /\ step \in {"installed", "refused"}
    /\ submitted < MaxDocuments
    /\ submitted' = submitted + 1
    /\ document' = d
    /\ exported' = isExport
    /\ step' = "shape"
    /\ errors' = {}
    /\ UNCHANGED <<active, loginVars>>

Export == active # NoPolicy /\ Submit(Exported(active), TRUE)
Replace == \E d \in Documents : Submit(d, FALSE)

-----------------------------------------------------------------------------
(* A request's principal *)

HasToken == credential.kind # "none"

Refuse == login' = "refused" /\ who' = NoOne

Verified(accepted) ==
    /\ login = "none" /\ active # NoPolicy
    /\ IF accepted THEN login' = "verified" /\ UNCHANGED who ELSE Refuse
    /\ UNCHANGED <<documentVars, settings, credential, pinned, stable>>

\* verify_token() of the middleware: a static token's subject is one of the policy, a JWT's
\* is the claim it was signed for.
VerifyStatic == credential.kind = "static" /\ Verified(credential.subject \in DOMAIN active.principals)
VerifyJwt == credential.kind = "jwt" /\ \E valid \in BOOLEAN : Verified(valid)
ComeWithout == ~HasToken /\ Verified(TRUE)

\* current_request_context(): get_context()
Pin ==
    /\ login = "verified"
    /\ login' = "pinned"
    /\ pinned' = active
    /\ UNCHANGED <<documentVars, settings, credential, who, stable>>

Privileged(r) == r.bypass \/ r.permissions \cap Control # {}

\* _map_claim_roles()
MapClaimRoles_AsClaimed(claimed, p) ==
    LET mapped == {settings.map[r] : r \in claimed \cap DOMAIN settings.map}
                  \cup IF settings.raw THEN claimed ELSE {}
    IN  Lowered(mapped \ {n \in DOMAIN p.roles : Privileged(p.roles[n])})
MapClaimRoles(claimed, p) ==
    LET mapped == Lowered({settings.map[r] : r \in claimed \cap DOMAIN settings.map})
                  \cup IF settings.raw THEN Lowered(claimed) ELSE {}
    IN  mapped \ {n \in DOMAIN p.roles : Privileged(p.roles[n])}

Claims == settings.principal \in {"claims", "mapped_claims"}

Resolved(principal) ==
    /\ login' = "resolved"
    /\ who' = principal

OfPolicy(s, p) == [subject |-> s, roles |-> p.principals[s].roles, claimed |-> FALSE]

\* principal_for_access_token()
ResolveToken ==
    /\ login = "pinned" /\ HasToken
    /\ LET s == credential.subject
           roles == MapClaimRoles(credential.roles, pinned)
       IN  IF s \in DOMAIN pinned.principals THEN Resolved(OfPolicy(s, pinned))
           ELSE IF Claims /\ roles # {}
             THEN Resolved([subject |-> s, roles |-> roles, claimed |-> TRUE])
           ELSE Refuse
    /\ stable' = (pinned = active)
    /\ UNCHANGED <<documentVars, settings, credential, pinned>>

\* A local request is the default principal's: the name of the context's policy, looked up
\* in the policy that is in force now.
ResolveLocal ==
    /\ login = "pinned" /\ ~HasToken
    /\ IF \/ settings.mode # "disabled" /\ ~settings.stdio
          \/ pinned.default \notin DOMAIN active.principals
         THEN Refuse ELSE Resolved(OfPolicy(pinned.default, active))
    /\ stable' = (pinned = active)
    /\ UNCHANGED <<documentVars, settings, credential, pinned>>

DocumentNext ==
    \/ CheckShape \/ CheckSchema \/ CheckNames \/ CheckMeaning \/ Install
    \/ Export \/ Replace
    \/ VerifyStatic \/ VerifyJwt \/ ComeWithout \/ Pin \/ ResolveToken \/ ResolveLocal

DocumentSpec == DocumentInit /\ [][DocumentNext]_<<documentVars, loginVars>>

-----------------------------------------------------------------------------
HasNullValue(p) == \E i \in DOMAIN p.rows : p.rows[i].value = Null /\ p.rows[i].from = Absent

\* The export of a policy in force, submitted again as the seed of a store, an edit or a
\* rollback would, passes every stage and compiles to the same policy.  One with a row
\* policy that compares with null does not: its value is left out.
ExportRoundTrips ==
    exported /\ ~HasNullValue(active) =>
        /\ step # "refused"
        /\ step = "accepted" => Compiled(document) = active

\* The roles a request is given are the policy's or, when the policy does not know the
\* subject, roles of the claims that neither bypass row filters nor administer the policy,
\* in whatever case the claims write them.  Under one accepted policy a local request
\* always finds its default principal.
PrincipalIsVetted ==
    /\ login = "resolved" /\ who.claimed =>
          /\ who.subject \notin DOMAIN pinned.principals
          /\ \A r \in who.roles \cap DOMAIN pinned.roles :
                ~pinned.roles[r].bypass /\ pinned.roles[r].permissions \cap Control = {}
    /\ login = "resolved" /\ ~who.claimed /\ stable => who.roles \subseteq DOMAIN pinned.roles
    /\ login = "refused" /\ stable => HasToken \/ settings.mode # "disabled"

\* PolicySubjects.matches()
Applies(rule) == Lower[who.subject] \in rule.subjects.users \/ rule.subjects.roles \cap who.roles # {}

\* "An explicit deny before an allow": a rule that names the principal applies to it.
\* The subject is looked up in lower case, and the names of a rule are kept as written.
NamedUserIsMatched ==
    login = "resolved" =>
        \A i \in DOMAIN pinned.acl :
            who.subject \in pinned.acl[i].subjects.users => Applies(pinned.acl[i])
=============================================================================
