SPECIFICATION Spec
CONSTANTS
    Exchanges <- MCExchanges
    Subjects <- MCSubjects
    Addresses <- MCAddresses
INVARIANTS
    ParamsReadBack
    QueryReadsBack
    ClientAgreesWithHeaders
    CertificateReadsBack
    SubjectTellsItsContents
CHECK_DEADLOCK FALSE
