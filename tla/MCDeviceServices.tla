-------------------------- MODULE MCDeviceServices --------------------------
EXTENDS DeviceServices

\* Requests with and without a token, with topics that look alike (the job
\* named "get"), with explicit filters and with a wildcard.
MCOperations == {DescribeJobExecution("get"), GetPendingJobExecutions, UpdateShadow,
                 CreateKeysAndCertificate, RegisterThing("template"),
                 UpdateCommandExecution("e1")}

\* A stream that hears the documents caused by a shadow update, and one with
\* a wildcard for the execution.
MCStreams == {ShadowUpdated, CommandExecutionsJsonPayload}

AllOperations ==
    MCOperations \cup
    {StartNextPendingJobExecution, UpdateJobExecution("job"), GetShadow, DeleteShadow,
     GetNamedShadow("name"), DeleteNamedShadow("name"), UpdateNamedShadow("name"),
     CreateCertificateFromCsr}

\* What is assumed of the topics holds of every operation and every stream,
\* the ones the run leaves out too, and two operations share no path.
AllStreams == {JobExecutionsChanged, NextJobExecutionChanged, ShadowUpdated,
               ShadowDeltaUpdated, NamedShadowUpdated("name"),
               NamedShadowDeltaUpdated("name"), CommandExecutionsCborPayload,
               CommandExecutionsGenericPayload, CommandExecutionsJsonPayload}

ASSUME AllTopicsAssumption ==
    /\ \A o \in AllOperations : Answered(o)
    /\ \A o, p \in AllOperations : o # p => ResponsePaths(o) \cap ResponsePaths(p) = {}
    /\ \A s \in AllStreams : EventFilter(s) /\ \A o \in AllOperations : Unanswering(s, o)

\* Safety only: the objects, the native tunnels and the requests are alike.
MCSymmetry == Permutations(Requests) \cup Permutations(Objects) \cup Permutations(Tunnels)
=============================================================================
