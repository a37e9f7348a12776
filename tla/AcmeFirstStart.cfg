SPECIFICATION AcmeSpec
CONSTANTS
    Domains = {"a", "b"}
    Custodies = {"file", "barrel"}
    MaxFailures = 2
PROPERTY FirstStart
