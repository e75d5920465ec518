---------------------------- MODULE MCStepInvoker ----------------------------
EXTENDS StepInvoker

End(r, file, expired) == [result |-> r, file |-> file, expired |-> expired]

\* One representative of every class invokeOne tells apart: success, an author
\* failure with and without its file, the same with an unreadable one, a fatal failure,
\* one that left no file, a timeout.
MCRunnerEnds ==
    {End("exit0", "absent", FALSE), End("step", "valid", FALSE), End("step", "absent", FALSE),
     End("step", "invalid", FALSE), End("fatal", "valid", FALSE), End("fatal", "absent", FALSE),
     End("signal", "absent", TRUE)}
==============================================================================
